---- MODULE Spec2Model ----
(***************************************************************************)
(* Upload / validate / store / sweep pipeline of the image-processing web  *)
(* application.  Three versions of the upload route are in the sources:    *)
(*   "part_000"  src/unnamed/part_000                                      *)
(*   "part_001"  src/unnamed/part_001                                      *)
(*   "route"     src/image-magick/app/api/upload/route.ts                  *)
(* A deployment runs one of them; the variable `variant` says which.       *)
(*                                                                         *)
(* Strings are sequences of one-character strings, a file is its name, its *)
(* declared MIME type, its size and its leading bytes (the only bytes the  *)
(* code reads), time is in milliseconds.  Paths follow the POSIX rules of  *)
(* Node's path module.                                                     *)
(***************************************************************************)
EXTENDS Integers, Sequences, FiniteSets, TLC

VARIABLES variant, now, rateLimit, dirExists, uploads, reqs, bg,
          rl, vf, fn, processed, pr, sw, dk, hist, up

vars == <<variant, now, rateLimit, dirExists, uploads, reqs, bg, rl, vf, fn,
          processed, pr, sw, dk, hist, up>>

\* the state of the processing route, of a sweep on its own, of the shared
\* disk, of the call history and of the form, which the upload route's steps
\* leave alone
others == <<processed, pr, sw, dk, hist, up>>

----------------------------------------------------------------------------
(* Characters *)

Lowers == <<"a","b","c","d","e","f","g","h","i","j","k","l","m",
            "n","o","p","q","r","s","t","u","v","w","x","y","z">>
Uppers == <<"A","B","C","D","E","F","G","H","I","J","K","L","M",
            "N","O","P","Q","R","S","T","U","V","W","X","Y","Z">>
Digits == <<"0","1","2","3","4","5","6","7","8","9">>

Range(s) == {s[i] : i \in DOMAIN s}

\* the character class [a-zA-Z0-9] of generateSafeFilename's regular expression
IsAlnum(c) == c \in Range(Lowers) \cup Range(Uppers) \cup Range(Digits)

\* String.prototype.toLowerCase, one character
LowerChar(c) ==
  IF c \in Range(Uppers)
    THEN Lowers[CHOOSE i \in DOMAIN Uppers : Uppers[i] = c]
    ELSE c

\* String.prototype.toLowerCase
toLowerCase(s) == [i \in DOMAIN s |-> LowerChar(s[i])]

\* String.prototype.slice(from, to) on 0-based indices, from <= to
Slice(s, from, to) == SubSeq(s, from + 1, to)

\* decimal digits of a non-negative integer, as template literals print it
RECURSIVE ToDecimal(_)
ToDecimal(n) ==
  IF n < 10 THEN <<Digits[n + 1]>>
            ELSE ToDecimal(n \div 10) \o <<Digits[(n % 10) + 1]>>

----------------------------------------------------------------------------
(* Node's path.posix.extname and path.posix.basename, as the loops of the  *)
(* library compute them; indices are 0-based and -1 means "not set".       *)

RECURSIVE ExtScan(_, _, _)
ExtScan(path, i, st) ==
  IF i < 0 THEN st
  ELSE
    LET c == path[i + 1] IN
    IF c = "/"
      THEN IF ~st.matchedSlash
             THEN [st EXCEPT !.startPart = i + 1]
             ELSE ExtScan(path, i - 1, st)
      ELSE
        LET s1 == IF st.end = -1
                    THEN [st EXCEPT !.matchedSlash = FALSE, !.end = i + 1]
                    ELSE st
            s2 == IF c = "."
                    THEN IF s1.startDot = -1
                           THEN [s1 EXCEPT !.startDot = i]
                           ELSE IF s1.preDotState # 1
                                  THEN [s1 EXCEPT !.preDotState = 1]
                                  ELSE s1
                    ELSE IF s1.startDot # -1
                           THEN [s1 EXCEPT !.preDotState = -1]
                           ELSE s1
        IN ExtScan(path, i - 1, s2)

extname(path) ==
  LET st == ExtScan(path, Len(path) - 1,
                    [startDot |-> -1, startPart |-> 0, end |-> -1,
                     matchedSlash |-> TRUE, preDotState |-> 0])
  IN IF \/ st.startDot = -1
        \/ st.end = -1
        \/ st.preDotState = 0
        \/ (/\ st.preDotState = 1
            /\ st.startDot = st.end - 1
            /\ st.startDot = st.startPart + 1)
       THEN <<>>
       ELSE Slice(path, st.startDot, st.end)

\* the loop of basename(path, suffix) for a non-empty suffix
RECURSIVE BaseScanSuffix(_, _, _, _)
BaseScanSuffix(path, suffix, i, st) ==
  IF i < 0 THEN st
  ELSE
    LET c == path[i + 1] IN
    IF c = "/"
      THEN IF ~st.matchedSlash
             THEN [st EXCEPT !.start = i + 1]
             ELSE BaseScanSuffix(path, suffix, i - 1, st)
      ELSE
        LET s1 == IF st.firstNonSlashEnd = -1
                    THEN [st EXCEPT !.matchedSlash = FALSE,
                                    !.firstNonSlashEnd = i + 1]
                    ELSE st
            s2 == IF s1.extIdx >= 0
                    THEN IF c = suffix[s1.extIdx + 1]
                           THEN IF s1.extIdx - 1 = -1
                                  THEN [s1 EXCEPT !.extIdx = -1, !.end = i]
                                  ELSE [s1 EXCEPT !.extIdx = s1.extIdx - 1]
                           ELSE [s1 EXCEPT !.extIdx = -1,
                                           !.end = s1.firstNonSlashEnd]
                    ELSE s1
        IN BaseScanSuffix(path, suffix, i - 1, s2)

\* the loop of basename(path) without a usable suffix
RECURSIVE BaseScan(_, _, _)
BaseScan(path, i, st) ==
  IF i < 0 THEN st
  ELSE
    IF path[i + 1] = "/"
      THEN IF ~st.matchedSlash
             THEN [st EXCEPT !.start = i + 1]
             ELSE BaseScan(path, i - 1, st)
      ELSE IF st.end = -1
             THEN BaseScan(path, i - 1,
                           [st EXCEPT !.matchedSlash = FALSE, !.end = i + 1])
             ELSE BaseScan(path, i - 1, st)

basename(path, suffix) ==
  IF Len(suffix) > 0 /\ Len(suffix) <= Len(path)
    THEN IF suffix = path THEN <<>>
         ELSE
           LET st == BaseScanSuffix(path, suffix, Len(path) - 1,
                       [start |-> 0, end |-> -1, matchedSlash |-> TRUE,
                        extIdx |-> Len(suffix) - 1, firstNonSlashEnd |-> -1])
               end == IF st.start = st.end THEN st.firstNonSlashEnd
                      ELSE IF st.end = -1 THEN Len(path)
                      ELSE st.end
           IN Slice(path, st.start, end)
    ELSE
      LET st == BaseScan(path, Len(path) - 1,
                         [start |-> 0, end |-> -1, matchedSlash |-> TRUE])
      IN IF st.end = -1 THEN <<>> ELSE Slice(path, st.start, st.end)

----------------------------------------------------------------------------
(* Constants of the upload route *)

MAX_FILE_SIZE == 10 * 1024 * 1024
ALLOWED_TYPES == {"image/jpeg", "image/png", "image/webp"}
ALLOWED_EXTENSIONS == {<<".","j","p","g">>, <<".","j","p","e","g">>,
                       <<".","p","n","g">>, <<".","w","e","b","p">>}
WINDOW_MS == 15 * 60 * 1000
MAX_REQUESTS == 100
MAX_AGE == 24 * 60 * 60 * 1000

\* signatures.jpeg / .png / .webp : FF D8 FF, 89 50 4E 47, 52 49 46 46
SigJpeg == <<255, 216, 255>>
SigPng == <<137, 80, 78, 71>>
SigWebp == <<82, 73, 70, 70>>

Variants == {"part_000", "part_001", "route"}
\* the versions that sniff magic numbers, rate-limit, sweep and carry codes
FullVariants == {"part_000", "part_001"}

----------------------------------------------------------------------------
(* File validator *)

\* the size test with >= where the code has >
ExceedsMaxSize_OffByOne(file) == file.size >= MAX_FILE_SIZE

\* file.size > MAX_FILE_SIZE
ExceedsMaxSize(file) == file.size > MAX_FILE_SIZE

\* Array.prototype.every((byte, i) => byte === sig[i]); sig[i] is undefined
\* past the signature's end, and every() of an empty array is true
EveryMatches(bytes, sig) ==
  \A i \in DOMAIN bytes : i <= Len(sig) /\ bytes[i] = sig[i]

\* the first n elements, Array.prototype.slice(0, n)
Take(s, n) == SubSeq(s, 1, IF Len(s) < n THEN Len(s) ELSE n)

\* the extension and declared-type test common to the three versions
TypeAndExtensionAllowed(file) ==
  /\ file.type \in ALLOWED_TYPES
  /\ toLowerCase(extname(file.name)) \in ALLOWED_EXTENSIONS

\* SignatureMatches without its WebP alternative
SignatureMatches_NoWebp(file) ==
  LET fileSignature == Take(file.head, 4) IN
    \/ EveryMatches(Take(fileSignature, 3), SigJpeg)
    \/ EveryMatches(fileSignature, SigPng)

\* the magic-number test of part_000 and part_001
SignatureMatches(file) ==
  LET fileSignature == Take(file.head, 4) IN
    \/ EveryMatches(Take(fileSignature, 3), SigJpeg)
    \/ EveryMatches(fileSignature, SigPng)
    \/ EveryMatches(Take(fileSignature, 4), SigWebp)

validateFileType(v, file) ==
  IF v \in FullVariants
    THEN IF ~TypeAndExtensionAllowed(file) THEN FALSE
         ELSE SignatureMatches(file)
    ELSE TypeAndExtensionAllowed(file)

----------------------------------------------------------------------------
(* Filename sanitizer *)

\* ReplaceNonAlnum with '_' as the replacement character
ReplaceNonAlnum_Underscore(s) ==
  [i \in DOMAIN s |-> IF IsAlnum(s[i]) THEN s[i] ELSE "_"]

\* .replace(/[^a-zA-Z0-9]/g, '-')
ReplaceNonAlnum(s) == [i \in DOMAIN s |-> IF IsAlnum(s[i]) THEN s[i] ELSE "-"]

\* `${Date.now()}-${Math.random().toString(36).slice(2)}`
UniqueId(t, rnd) == ToDecimal(t) \o <<"-">> \o rnd

generateSafeFilename(v, originalName, t, rnd) ==
  LET extension == extname(originalName)
      baseFilename == toLowerCase(ReplaceNonAlnum(basename(originalName, extension)))
  IN IF v \in FullVariants
       THEN baseFilename \o <<"-">> \o UniqueId(t, rnd) \o extension
       ELSE UniqueId(t, rnd) \o <<"-">> \o baseFilename \o extension

----------------------------------------------------------------------------
(* Rate limiter: rateLimit is the Map, a function whose domain is the set  *)
(* of keys that have an entry.                                             *)

EmptyMap == [k \in {} |-> 0]

MapSet(m, k, val) == [x \in (DOMAIN m) \cup {k} |-> IF x = k THEN val ELSE m[x]]

\* checkRateLimit whose increment is lost: the count it read is not stored
checkRateLimit_LostUpdate(m, ip, t) ==
  LET userLimit == IF ip \in DOMAIN m THEN m[ip]
                   ELSE [count |-> 0, resetTime |-> t + WINDOW_MS]
  IN IF t > userLimit.resetTime
       THEN [ok |-> TRUE,
             map |-> MapSet(m, ip, [count |-> 1, resetTime |-> t + WINDOW_MS])]
     ELSE IF userLimit.count >= MAX_REQUESTS
       THEN [ok |-> FALSE, map |-> m]
       ELSE [ok |-> TRUE, map |-> MapSet(m, ip, userLimit)]

\* checkRateLimit that counts the refused call too
checkRateLimit_CountsRefused(m, ip, t) ==
  LET userLimit == IF ip \in DOMAIN m THEN m[ip]
                   ELSE [count |-> 0, resetTime |-> t + WINDOW_MS]
  IN IF t > userLimit.resetTime
       THEN [ok |-> TRUE,
             map |-> MapSet(m, ip, [count |-> 1, resetTime |-> t + WINDOW_MS])]
       ELSE [ok |-> userLimit.count < MAX_REQUESTS,
             map |-> MapSet(m, ip, [userLimit EXCEPT !.count = @ + 1])]

\* checkRateLimit comparing with > where the code has >=
checkRateLimit_OffByOne(m, ip, t) ==
  LET userLimit == IF ip \in DOMAIN m THEN m[ip]
                   ELSE [count |-> 0, resetTime |-> t + WINDOW_MS]
  IN IF t > userLimit.resetTime
       THEN [ok |-> TRUE,
             map |-> MapSet(m, ip, [count |-> 1, resetTime |-> t + WINDOW_MS])]
       ELSE IF userLimit.count > MAX_REQUESTS
              THEN [ok |-> FALSE, map |-> m]
              ELSE [ok |-> TRUE,
                    map |-> MapSet(m, ip, [userLimit EXCEPT !.count = @ + 1])]

\* the result of checkRateLimit(ip) at time t: its return value and the Map
checkRateLimit(m, ip, t) ==
  LET userLimit == IF ip \in DOMAIN m THEN m[ip]
                   ELSE [count |-> 0, resetTime |-> t + WINDOW_MS]
  IN IF t > userLimit.resetTime
       THEN [ok |-> TRUE,
             map |-> MapSet(m, ip, [count |-> 1, resetTime |-> t + WINDOW_MS])]
       ELSE IF userLimit.count >= MAX_REQUESTS
              THEN [ok |-> FALSE, map |-> m]
              ELSE [ok |-> TRUE,
                    map |-> MapSet(m, ip, [userLimit EXCEPT !.count = @ + 1])]

----------------------------------------------------------------------------
(* Bounds of the model and the inputs drawn from them *)

MaxWindows == 1
MaxOffset == 1
MaxNameLen == 3
MaxExtraCalls == 2
MaxOtherCalls == 2
MaxEntries == 3
MaxBatch == 2
MaxDiskRequests == 3

\* the clock starts late enough for files older than MAX_AGE to exist
StartTime == 2 * MAX_AGE

\* the instants the clock takes: window boundaries and the millisecond after
Instants == {StartTime + b * WINDOW_MS + a : b \in 0..MaxWindows, a \in 0..MaxOffset}

\* client keys (the x-forwarded-for header, or 'unknown')
Keys == {"10.0.0.1", "unknown"}

\* values of Math.random().toString(36).slice(2); empty when random() is 0
RandomSuffixes == {<<>>, <<"k","7">>}

NameAlphabet == {"a", "B", ".", "/", "\\", " "}

RECURSIVE SeqsUpTo(_, _)
SeqsUpTo(S, n) ==
  IF n = 0 THEN {<<>>}
  ELSE LET shorter == SeqsUpTo(S, n - 1)
       IN shorter \cup {Append(s, c) : s \in {x \in shorter : Len(x) = n - 1}, c \in S}

\* file names a client can send
UploadNames == {<<"a",".","p","n","g">>, <<"A"," ","b",".","P","N","G">>,
                <<"x",".","j","p","e","g">>, <<"a",".","j","p","g">>,
                <<"w",".","w","e","b","p">>, <<"a",".","t","x","t">>,
                <<".",".","/","e",".","p","n","g">>, <<"n","o","e","x","t">>}

Names == SeqsUpTo(NameAlphabet, MaxNameLen) \cup UploadNames

DeclaredTypes == ALLOWED_TYPES \cup {"text/plain"}

\* leading bytes: the signatures, their proper prefixes, and near misses
FullHeads == {SigJpeg \o <<224>>, SigPng, SigWebp, <<0, 0, 0, 0>>,
              <<255, 216, 0, 0>>, <<137, 80, 78, 0>>, <<82, 73, 70, 0>>,
              <<255, 0, 0, 0>>}
Heads == {Take(h, n) : h \in FullHeads, n \in 0..4}

\* sizes of a file whose first bytes are h: h is the whole file when shorter
\* than four bytes
SizesOf(h) == IF Len(h) < 4 THEN {Len(h)}
              ELSE {4, 2048, MAX_FILE_SIZE, MAX_FILE_SIZE + 1}

FileOf(name, type, h, size) ==
  [kind |-> "file", name |-> name, type |-> type, size |-> size, head |-> h]

Files(names) ==
  UNION {{FileOf(n, t, h, sz) : sz \in SizesOf(h)} :
           n \in names, t \in DeclaredTypes, h \in Heads}

NoFile == [kind |-> "none", name |-> <<>>, type |-> "", size |-> 0, head |-> <<>>]

----------------------------------------------------------------------------
(* Values of the variables a specification does not use *)

NoRl == [phase |-> "off", key |-> "", ok |-> FALSE, at |-> 0,
         calls |-> EmptyMap, windowEnd |-> EmptyMap, rejected |-> {},
         busy |-> "", others |-> 0]
NoVf == [phase |-> "off", file |-> NoFile, result |-> FALSE]
NoFn == [phase |-> "off", name |-> <<>>, out1 |-> <<>>, id1 |-> <<>>,
         out2 |-> <<>>, id2 |-> <<>>]
NoPr == [pc |-> "off"]
NoSw == [pc |-> "off"]
NoDk == [phase |-> "off"]
NoHist == [phase |-> "off"]
NoUp == [phase |-> "off"]

----------------------------------------------------------------------------
(* SpecValidate: validateFileType applied to any file *)

InitValidate ==
  /\ variant \in Variants
  /\ now = StartTime
  /\ rateLimit = EmptyMap
  /\ dirExists = TRUE
  /\ uploads = EmptyMap
  /\ reqs = <<>>
  /\ bg = {}
  /\ up = NoUp
  /\ processed = {}
  /\ pr = NoPr
  /\ sw = NoSw
  /\ dk = NoDk
  /\ hist = NoHist
  /\ rl = NoRl
  /\ fn = NoFn
  /\ \E f \in Files(UploadNames) :
       vf = [phase |-> "input", file |-> f, result |-> FALSE]

Validate ==
  /\ vf.phase = "input"
  /\ vf' = [vf EXCEPT !.phase = "validated",
                      !.result = validateFileType(variant, vf.file)]
  /\ UNCHANGED <<others, variant, now, rateLimit, dirExists, uploads, reqs, bg, rl, fn>>

SpecValidate == InitValidate /\ [][Validate]_vars

----------------------------------------------------------------------------
(* SpecName: generateSafeFilename applied to any name, then to its output  *)

InitName ==
  /\ variant \in Variants
  /\ now = StartTime
  /\ rateLimit = EmptyMap
  /\ dirExists = TRUE
  /\ uploads = EmptyMap
  /\ reqs = <<>>
  /\ bg = {}
  /\ up = NoUp
  /\ processed = {}
  /\ pr = NoPr
  /\ sw = NoSw
  /\ dk = NoDk
  /\ hist = NoHist
  /\ rl = NoRl
  /\ vf = NoVf
  /\ \E n \in Names : fn = [NoFn EXCEPT !.phase = "input", !.name = n]

Sanitize ==
  /\ fn.phase = "input"
  /\ \E rnd \in RandomSuffixes :
       fn' = [fn EXCEPT !.phase = "once",
                        !.id1 = UniqueId(now, rnd),
                        !.out1 = generateSafeFilename(variant, fn.name, now, rnd)]
  /\ UNCHANGED <<others, variant, now, rateLimit, dirExists, uploads, reqs, bg, rl, vf>>

SanitizeAgain ==
  /\ fn.phase = "once"
  /\ \E rnd \in RandomSuffixes :
       fn' = [fn EXCEPT !.phase = "twice",
                        !.id2 = UniqueId(now, rnd),
                        !.out2 = generateSafeFilename(variant, fn.out1, now, rnd)]
  /\ UNCHANGED <<others, variant, now, rateLimit, dirExists, uploads, reqs, bg, rl, vf>>

\* the clock between two calls
TickName ==
  /\ fn.phase = "once"
  /\ \E t \in Instants : t > now /\ now' = t
  /\ UNCHANGED <<others, variant, rateLimit, dirExists, uploads, reqs, bg, rl, vf, fn>>

SpecName == InitName /\ [][Sanitize \/ SanitizeAgain \/ TickName]_vars

----------------------------------------------------------------------------
(* SpecRate: calls of checkRateLimit from an empty Map, as the clock runs. *)
(* rl records the history of the calls: for each key the end of the window *)
(* opened by its first call (or its first call after the previous window   *)
(* ended) and the number of calls made in that window.  One key, chosen at *)
(* the start, calls without limit; the others make MaxOtherCalls calls     *)
(* between them.                                                           *)

InitRate ==
  /\ variant \in FullVariants
  /\ now = StartTime
  /\ rateLimit = EmptyMap
  /\ dirExists = TRUE
  /\ uploads = EmptyMap
  /\ reqs = <<>>
  /\ bg = {}
  /\ up = NoUp
  /\ processed = {}
  /\ pr = NoPr
  /\ sw = NoSw
  /\ dk = NoDk
  /\ hist = NoHist
  /\ vf = NoVf
  /\ fn = NoFn
  /\ \E k \in Keys :
       rl = [phase |-> "start", key |-> "", ok |-> FALSE, at |-> 0,
             calls |-> EmptyMap, windowEnd |-> EmptyMap, rejected |-> {},
             busy |-> k, others |-> 0]

\* one call checkRateLimit(k) at the current time
AllowCall(k) ==
  LET res == checkRateLimit(rateLimit, k, now)
      fresh == k \notin DOMAIN rl.windowEnd \/ now > rl.windowEnd[k]
      n == IF fresh THEN 1 ELSE rl.calls[k] + 1
  IN /\ rl.phase \in {"start", "called"}
     /\ n <= MAX_REQUESTS + MaxExtraCalls
     /\ k # rl.busy => rl.others < MaxOtherCalls
     /\ rateLimit' = res.map
     /\ rl' = [phase |-> "called", key |-> k, ok |-> res.ok, at |-> now,
               busy |-> rl.busy,
               others |-> IF k # rl.busy THEN rl.others + 1 ELSE rl.others,
               calls |-> MapSet(rl.calls, k, n),
               windowEnd |-> IF fresh THEN MapSet(rl.windowEnd, k, now + WINDOW_MS)
                                      ELSE rl.windowEnd,
               rejected |-> IF res.ok THEN rl.rejected ELSE rl.rejected \cup {k}]
     /\ UNCHANGED <<others, variant, now, dirExists, uploads, reqs, bg, vf, fn>>

TickRate ==
  /\ rl.phase \in {"start", "called"}
  /\ \E t \in Instants : t > now /\ now' = t
  /\ UNCHANGED <<others, variant, rateLimit, dirExists, uploads, reqs, bg, rl, vf, fn>>

NextRate == (\E k \in Keys : AllowCall(k)) \/ TickRate

SpecRate == InitRate /\ [][NextRate]_vars

\* C1: from no entry for a key, the first 100 calls made in one window
\* return true, the 101st returns false, and the first call after the window
\* has elapsed returns true and opens a new window with count 1.
C1_RateLimitWindow ==
  rl.phase = "called" =>
    LET k == rl.key
        n == rl.calls[k]
    IN /\ n <= MAX_REQUESTS => rl.ok
       /\ n = MAX_REQUESTS + 1 => ~rl.ok
       /\ n = 1 => /\ k \in DOMAIN rateLimit
                   /\ rateLimit[k].count = 1
                   /\ rateLimit[k].resetTime = rl.at + WINDOW_MS

\* a key that was refused in one window is served again in the next
C1_Witness ==
  /\ rl.phase = "called"
  /\ rl.key \in rl.rejected
  /\ rl.calls[rl.key] = 1
  /\ rl.ok

\* C27: every entry of the Map has 1 <= count <= 100, and an entry's
\* resetTime changes only in a call made after it has passed, where it
\* becomes the time of that call plus 15 minutes.
C27_EntriesWellFormed ==
  /\ [](\A k \in DOMAIN rateLimit :
          rateLimit[k].count >= 1 /\ rateLimit[k].count <= MAX_REQUESTS)
  /\ [][\A k \in DOMAIN rateLimit :
          /\ k \in DOMAIN rateLimit'
          /\ rateLimit'[k].resetTime # rateLimit[k].resetTime =>
               /\ now > rateLimit[k].resetTime
               /\ rateLimit'[k].resetTime = now + WINDOW_MS
               /\ rateLimit'[k].count = 1]_vars

\* a second window of a key has been opened and used up
C27_Witness ==
  \E k \in DOMAIN rateLimit :
    /\ rateLimit[k].count = MAX_REQUESTS
    /\ rateLimit[k].resetTime > StartTime + WINDOW_MS

\* C28: a call checkRateLimit(k) that returns false leaves the whole Map
\* as it was, and any call checkRateLimit(k) leaves the entry of every other
\* key as it was and adds no entry but k's.
C28_RefusalChangesNothing ==
  [][rl' # rl =>
       /\ ~rl'.ok => rateLimit' = rateLimit
       /\ DOMAIN rateLimit' \subseteq (DOMAIN rateLimit) \cup {rl'.key}
       /\ \A k \in (DOMAIN rateLimit) \ {rl'.key} :
            k \in DOMAIN rateLimit' /\ rateLimit'[k] = rateLimit[k]]_vars

\* a call was refused while another key holds an entry
C28_Witness ==
  /\ rl.phase = "called"
  /\ ~rl.ok
  /\ \E k \in DOMAIN rateLimit : k # rl.key

----------------------------------------------------------------------------
(* Responses of the upload route *)

corsHeaders == {"Access-Control-Allow-Origin: *",
                "Access-Control-Allow-Methods: GET, POST, PUT, DELETE, OPTIONS",
                "Access-Control-Allow-Headers: Content-Type, Authorization"}
securityHeaders == {"X-Content-Type-Options: nosniff", "X-Frame-Options: DENY",
                    "Content-Security-Policy: default-src 'self'",
                    "X-XSS-Protection: 1; mode=block"}
\* baseHeaders of part_001, { ...corsHeaders, ...securityHeaders } of part_000
baseHeaders == corsHeaders \cup securityHeaders

NoResp == [status |-> 0, body |-> [success |-> FALSE], headers |-> {}]

\* new FileUploadError(message, code, statusCode)
FileUploadError(message, code, statusCode) ==
  [upload |-> TRUE, message |-> message, code |-> code, statusCode |-> statusCode]

\* any other Error thrown by the runtime (mkdir, formData, writeFile, stat)
SystemError(message) ==
  [upload |-> FALSE, message |-> message, code |-> "", statusCode |-> 0]

\* the catch block of POST
CatchResponse(v, error) ==
  IF v \in FullVariants
    THEN [status |-> IF error.upload THEN error.statusCode ELSE 500,
          body |-> [success |-> FALSE,
                    error |-> error.message,
                    code |-> IF error.upload THEN error.code ELSE "UNKNOWN_ERROR"],
          headers |-> baseHeaders]
    ELSE [status |-> 500,
          body |-> [success |-> FALSE, error |-> "Upload failed",
                    details |-> error.message],
          headers |-> {}]

\* a validation failure: thrown as FileUploadError in part_000 and part_001,
\* returned at once with status 400 and no code in route.ts
Reject(v, message, code, statusCode) ==
  IF v \in FullVariants
    THEN CatchResponse(v, FileUploadError(message, code, statusCode))
    ELSE [status |-> statusCode,
          body |-> [success |-> FALSE, error |-> message],
          headers |-> {}]

\* the answer to a request over the limit: returned at once, without code or
\* headers, in part_000; thrown as FileUploadError in part_001
RateLimitResponse(v) ==
  IF v = "part_000"
    THEN [status |-> 429,
          body |-> [success |-> FALSE, error |-> "Rate limit exceeded"],
          headers |-> {}]
    ELSE CatchResponse(v, FileUploadError("Rate limit exceeded",
                                          "RATE_LIMIT_EXCEEDED", 429))

TooLargeMessage(v) ==
  IF v = "part_001" THEN "File size exceeds 10MB limit"
                    ELSE "File size exceeds maximum limit of 10MB"
NoFileMessage(v) ==
  IF v = "part_001" THEN "No file provided"
                    ELSE "No file provided or invalid file format"
BadTypeMessage(v) ==
  IF v = "part_001" THEN "Invalid file type. Only JPEG, PNG, and WebP allowed."
                    ELSE "Invalid file type. Only JPEG, PNG, and WebP files are allowed."

UploadsPrefix == <<"/","u","p","l","o","a","d","s","/">>

\* String.prototype.toUpperCase
UpperChar(c) ==
  IF c \in Range(Lowers)
    THEN Uppers[CHOOSE i \in DOMAIN Lowers : Lowers[i] = c]
    ELSE c
toUpperCase(s) == [i \in DOMAIN s |-> UpperChar(s[i])]

\* the success response; size is stats.size, mtime is stats.mtime
SuccessResponse(v, filename, file, size, mtime) ==
  IF v = "part_001"
    THEN [status |-> 200,
          body |-> [success |-> TRUE,
                    data |-> [filename |-> filename,
                              url |-> UploadsPrefix \o filename,
                              metadata |-> [width |-> 0, height |-> 0,
                                            size |-> size,
                                            format |-> toUpperCase(Slice(extname(filename), 1,
                                                                      Len(extname(filename)))),
                                            lastModified |-> mtime]]],
          headers |-> baseHeaders]
    ELSE [status |-> 200,
          body |-> [success |-> TRUE, filename |-> filename,
                    url |-> UploadsPrefix \o filename,
                    size |-> size, type |-> file.type],
          headers |-> IF v = "part_000" THEN baseHeaders ELSE {}]

----------------------------------------------------------------------------
(* Spec: one request to the upload route, received by a server in any of   *)
(* the states InitialLimits and the initial directories describe.  The     *)
(* request advances from one await to the next; reqs[r].pc is the await it *)
(* is suspended at.  The upload directory is a function from entry name to *)
(* [mtime, size].                                                          *)


PngHead == SigPng
JpegHead == SigJpeg \o <<224>>

NamePng == <<"a",".","p","n","g">>
NameUpper == <<"A"," ","b",".","P","N","G">>
NameJpeg == <<"x",".","j","p","e","g">>
NameTxt == <<"a",".","t","x","t">>
NameDotDot == <<".",".","/","e",".","p","n","g">>
NameWebp == <<"w",".","w","e","b","p">>

\* the files a client posts in field 'file'
HandlerFiles ==
  { FileOf(NamePng, "image/png", PngHead, 2048),
    FileOf(NamePng, "image/png", PngHead, MAX_FILE_SIZE),
    FileOf(NamePng, "image/png", PngHead, MAX_FILE_SIZE + 1),
    FileOf(NamePng, "image/png", <<>>, 0),
    FileOf(NameJpeg, "image/jpeg", <<255>>, 1),
    FileOf(NamePng, "image/png", <<0, 0, 0, 0>>, 4),
    FileOf(NamePng, "image/png", <<137, 80, 78, 0>>, 2048),
    FileOf(NamePng, "image/jpeg", PngHead, 2048),
    FileOf(NameJpeg, "image/jpeg", PngHead, 2048),
    FileOf(NameJpeg, "image/jpeg", JpegHead, 2048),
    FileOf(NameUpper, "image/png", PngHead, 2048),
    FileOf(NameTxt, "image/png", PngHead, 2048),
    FileOf(NamePng, "text/plain", PngHead, 2048),
    FileOf(NameTxt, "text/plain", <<0, 0, 0, 0>>, MAX_FILE_SIZE + 1),
    FileOf(NameWebp, "image/webp", SigWebp, 2048),
    FileOf(NameDotDot, "image/png", PngHead, 2048) }

\* field 'file' holding a string instead of a File
StringField == [NoFile EXCEPT !.kind = "string"]

\* threw names the system call of the request that failed, if one did;
\* window is the resetTime of the Map entry under which the request passed
\* the rate limit (0 if it did not) and before is the upload directory as
\* the request found it
IdleReq == [pc |-> "idle", ip |-> "", file |-> NoFile, filename |-> <<>>,
            size |-> 0, mtime |-> 0, listed |-> {}, sweepNow |-> 0,
            resp |-> NoResp, threw |-> "", window |-> 0, before |-> EmptyMap]

\* entries that exist before the first request: one older than MAX_AGE, one
\* that is exactly MAX_AGE old when the clock starts
OldEntries == [n \in {<<"o","l","d">>} |-> [mtime |-> StartTime - MAX_AGE - 1, size |-> 7]]
EdgeEntries == [n \in {<<"e","d","g","e">>} |-> [mtime |-> StartTime - MAX_AGE, size |-> 9]]
Merge(f, g) == [x \in (DOMAIN f) \cup (DOMAIN g) |-> IF x \in DOMAIN f THEN f[x] ELSE g[x]]
Remove(f, x) == [y \in (DOMAIN f) \ {x} |-> f[y]]

\* Map entries a running server can hold when a request arrives: none, or a
\* window opened at StartTime with 99 or 100 requests counted
InitialLimits ==
  {EmptyMap} \cup
  {[k \in {"10.0.0.1"} |-> [count |-> c, resetTime |-> StartTime + WINDOW_MS]] :
     c \in {MAX_REQUESTS - 1, MAX_REQUESTS}}

Reqs == {1}

Init ==
  /\ variant \in Variants
  /\ now = StartTime
  /\ rateLimit \in IF variant \in FullVariants THEN InitialLimits ELSE {EmptyMap}
  /\ \/ dirExists = FALSE /\ uploads = EmptyMap
     \/ dirExists = TRUE /\ uploads \in {EmptyMap, OldEntries, Merge(OldEntries, EdgeEntries)}
  /\ reqs = [r \in Reqs |-> IdleReq]
  /\ bg = {}
  /\ up = NoUp
  /\ processed = {}
  /\ pr = NoPr
  /\ sw = NoSw
  /\ dk = NoDk
  /\ hist = NoHist
  /\ rl = NoRl
  /\ vf = NoVf
  /\ fn = NoFn

Done(r, resp) == reqs' = [reqs EXCEPT ![r].pc = "done", ![r].resp = resp]

\* POST is entered with a request of one of the clients ips posting one of
\* files: the rate limit is checked before the first await
ReceiveFrom(r, ips, files) ==
  /\ reqs[r].pc = "idle"
  /\ \E ip \in ips, file \in files :
       LET fresh == [IdleReq EXCEPT !.ip = ip, !.file = file, !.before = uploads]
           res == checkRateLimit(rateLimit, ip, now)
       IN IF variant \in FullVariants
            THEN /\ rateLimit' = res.map
                 /\ reqs' = [reqs EXCEPT ![r] =
                      IF res.ok THEN [fresh EXCEPT !.pc = "ensureDir",
                                                   !.window = res.map[ip].resetTime]
                      ELSE [fresh EXCEPT !.pc = "done",
                                         !.resp = RateLimitResponse(variant)]]
            ELSE /\ reqs' = [reqs EXCEPT ![r] = [fresh EXCEPT !.pc = "ensureDir"]]
                 /\ UNCHANGED rateLimit
  /\ UNCHANGED <<others, variant, now, dirExists, uploads, bg, rl, vf, fn>>

Receive(r) == ReceiveFrom(r, Keys, HandlerFiles \cup {NoFile, StringField})

\* ensureUploadDirectory: mkdir only when the directory is missing
EnsureDir(r) ==
  /\ reqs[r].pc = "ensureDir"
  /\ \/ /\ dirExists' = TRUE
        /\ reqs' = [reqs EXCEPT ![r].pc = "formData"]
     \/ /\ ~dirExists
        /\ UNCHANGED dirExists
        /\ Done(r, CatchResponse(variant, SystemError("mkdir failed")))
  /\ UNCHANGED <<others, variant, now, rateLimit, uploads, bg, rl, vf, fn>>

\* req.formData(), data.get('file'), the presence and the size check
FormData(r) ==
  LET file == reqs[r].file IN
  /\ reqs[r].pc = "formData"
  /\ \/ Done(r, CatchResponse(variant, SystemError("formData failed")))
     \/ IF file.kind # "file"
          THEN Done(r, Reject(variant, NoFileMessage(variant), "INVALID_FILE", 400))
          ELSE IF ExceedsMaxSize(file)
            THEN Done(r, Reject(variant, TooLargeMessage(variant), "FILE_TOO_LARGE", 400))
            ELSE reqs' = [reqs EXCEPT ![r].pc = "validate"]
  /\ UNCHANGED <<others, variant, now, rateLimit, dirExists, uploads, bg, rl, vf, fn>>

\* a handler that writes the file before it looks at its type
ValidateType_WriteFirst(r) ==
  LET file == reqs[r].file IN
  /\ reqs[r].pc = "validate"
  /\ \E rnd \in RandomSuffixes :
       LET name == generateSafeFilename(variant, file.name, now, rnd) IN
       /\ uploads' = MapSet(uploads, name, [mtime |-> now, size |-> file.size])
       /\ IF ~validateFileType(variant, file)
            THEN Done(r, Reject(variant, BadTypeMessage(variant), "INVALID_FILE_TYPE", 400))
            ELSE reqs' = [reqs EXCEPT ![r].pc = "stat", ![r].filename = name]
  /\ UNCHANGED <<others, variant, now, rateLimit, dirExists, bg, rl, vf, fn>>

\* validateFileType, then generateSafeFilename on the accepted file
ValidateType(r) ==
  LET file == reqs[r].file IN
  /\ reqs[r].pc = "validate"
  /\ IF ~validateFileType(variant, file)
       THEN Done(r, Reject(variant, BadTypeMessage(variant), "INVALID_FILE_TYPE", 400))
       ELSE \E rnd \in RandomSuffixes :
              reqs' = [reqs EXCEPT
                         ![r].pc = "write",
                         ![r].filename = generateSafeFilename(variant, file.name, now, rnd)]
  /\ UNCHANGED <<others, variant, now, rateLimit, dirExists, uploads, bg, rl, vf, fn>>

\* writeFile(filepath, buffer): creates or overwrites the entry, or throws
WriteFile(r) ==
  /\ reqs[r].pc = "write"
  /\ \/ /\ dirExists
        /\ uploads' = MapSet(uploads, reqs[r].filename,
                             [mtime |-> now, size |-> reqs[r].file.size])
        /\ reqs' = [reqs EXCEPT ![r].pc = "stat"]
     \/ /\ UNCHANGED uploads
        /\ Done(r, CatchResponse(variant, SystemError("writeFile failed")))
  /\ UNCHANGED <<others, variant, now, rateLimit, dirExists, bg, rl, vf, fn>>

\* the stat after the write: getFileStats (null on failure) in part_000 and
\* route.ts, a bare stat in part_001
StatFile(r) ==
  LET name == reqs[r].filename
      failed == IF variant = "part_000"
                  THEN CatchResponse(variant, FileUploadError(
                         "File failed to write to disk", "WRITE_ERROR", 500))
                ELSE IF variant = "part_001"
                  THEN CatchResponse(variant, SystemError("stat failed"))
                  ELSE CatchResponse(variant, SystemError("File failed to write to disk"))
  IN
  /\ reqs[r].pc = "stat"
  /\ \/ reqs' = [reqs EXCEPT ![r].pc = "done", ![r].resp = failed,
                             ![r].threw = "stat"]
     \/ /\ name \in DOMAIN uploads
        /\ LET st == uploads[name]
               got == [reqs[r] EXCEPT !.size = st.size, !.mtime = st.mtime]
           IN IF variant \in FullVariants
                THEN reqs' = [reqs EXCEPT ![r] = [got EXCEPT !.pc = "readdir"]]
                ELSE reqs' = [reqs EXCEPT ![r] =
                       [got EXCEPT !.pc = "done",
                                   !.resp = SuccessResponse(variant, name, got.file,
                                                            st.size, st.mtime)]]
  /\ UNCHANGED <<others, variant, now, rateLimit, dirExists, uploads, bg, rl, vf, fn>>

\* what POST returns once cleanupOldFiles has resolved
Respond(r, req) ==
  [req EXCEPT !.pc = "done", !.listed = {},
              !.resp = SuccessResponse(variant, req.filename, req.file,
                                       req.size, req.mtime)]

\* a sweep whose error reaches the catch of POST
SweepFailure_Propagates(r, req, call) ==
  [req EXCEPT !.pc = "done", !.listed = {}, !.threw = call,
              !.resp = CatchResponse(variant, SystemError("cleanup failed"))]

\* the catch of cleanupOldFiles: the error of call is logged, the function
\* resolves and POST goes on to its success response
SweepFailure(r, req, call) == [Respond(r, req) EXCEPT !.threw = call]

\* cleanupOldFiles: readdir and Date.now(); an error ends the sweep
ReadDir(r) ==
  /\ reqs[r].pc = "readdir"
  /\ \/ reqs' = [reqs EXCEPT ![r].pc = "sweep", ![r].listed = DOMAIN uploads,
                             ![r].sweepNow = now]
     \/ reqs' = [reqs EXCEPT ![r] = SweepFailure(r, reqs[r], "readdir")]
  /\ UNCHANGED <<others, variant, now, rateLimit, dirExists, uploads, bg, rl, vf, fn>>

\* the age test with >= where the code has >
Expired_Inclusive(at, mtimeMs) == at - mtimeMs >= MAX_AGE

\* now - stats.mtimeMs > MAX_AGE
Expired(at, mtimeMs) == at - mtimeMs > MAX_AGE

\* stat and, for an entry older than MAX_AGE, unlink of one listed entry
SweepEntry(dir, name, at) ==
  IF Expired(at, dir[name].mtime) THEN Remove(dir, name) ELSE dir

\* one entry of the sweep.  A failing stat or unlink is caught by the try of
\* cleanupOldFiles: the loop of part_000 stops there; in part_001 the await
\* of Promise.all ends there while the other entries' tasks go on
SweepFile(r) ==
  /\ reqs[r].pc = "sweep"
  /\ \E name \in reqs[r].listed :
       \/ /\ name \in DOMAIN uploads
          /\ uploads' = SweepEntry(uploads, name, reqs[r].sweepNow)
          /\ reqs' = [reqs EXCEPT ![r].listed = @ \ {name}]
          /\ UNCHANGED bg
       \/ /\ UNCHANGED uploads
          /\ reqs' = [reqs EXCEPT ![r] =
               SweepFailure(r, reqs[r], IF name \in DOMAIN uploads
                                          THEN "sweep" ELSE "sweep ENOENT")]
          /\ bg' = IF variant = "part_001"
                     THEN bg \cup {[name |-> n, at |-> reqs[r].sweepNow] :
                                     n \in reqs[r].listed \ {name}}
                     ELSE bg
  /\ UNCHANGED <<others, variant, now, rateLimit, dirExists, rl, vf, fn>>

\* every entry was handled: cleanupOldFiles resolves and POST answers
SweepEnd(r) ==
  /\ reqs[r].pc = "sweep"
  /\ reqs[r].listed = {}
  /\ reqs' = [reqs EXCEPT ![r] = Respond(r, reqs[r])]
  /\ UNCHANGED <<others, variant, now, rateLimit, dirExists, uploads, bg, rl, vf, fn>>

\* a task of a sweep whose Promise.all was already rejected (part_001)
BackgroundSweep ==
  /\ \E task \in bg :
       /\ bg' = bg \ {task}
       /\ \/ /\ task.name \in DOMAIN uploads
             /\ uploads' = SweepEntry(uploads, task.name, task.at)
          \/ UNCHANGED uploads
  /\ UNCHANGED <<others, variant, now, rateLimit, dirExists, reqs, rl, vf, fn>>

\* the steps that read the clock: checkRateLimit, generateSafeFilename,
\* writeFile (mtime) and cleanupOldFiles
ReadsClock(pc) == pc \in {"idle", "validate", "write", "readdir"}

\* time passes; only the instants at which some step reads the clock matter
Tick ==
  /\ \E r \in DOMAIN reqs : ReadsClock(reqs[r].pc)
  /\ \E t \in Instants : t > now /\ now' = t
  /\ UNCHANGED <<others, variant, rateLimit, dirExists, uploads, reqs, bg, rl, vf, fn>>

Next ==
  \/ \E r \in Reqs :
       \/ Receive(r) \/ EnsureDir(r) \/ FormData(r) \/ ValidateType(r)
       \/ WriteFile(r) \/ StatFile(r) \/ ReadDir(r) \/ SweepFile(r) \/ SweepEnd(r)
  \/ BackgroundSweep
  \/ Tick

Spec == Init /\ [][Next]_vars

----------------------------------------------------------------------------
(* SpecConcurrent: MaxConcurrent upload requests of one client, each with   *)
(* the same valid file, served by part_000 or part_001 and interleaving at  *)
(* their awaits: the steps of POST above, taken by any of the requests in   *)
(* any order.  The directory holds one entry older than MAX_AGE, the clock  *)
(* moves between arrivals, and hist.limits is the Map the first request     *)
(* finds.                                                                   *)

MaxConcurrent == 2

ConcurrentReqs == 1..MaxConcurrent
ConcurrentKey == "10.0.0.1"
ConcurrentFiles == {FileOf(NamePng, "image/png", PngHead, 2048)}

InitConcurrent ==
  /\ variant \in FullVariants
  /\ now = StartTime
  /\ rateLimit \in InitialLimits
  /\ dirExists = TRUE
  /\ uploads = OldEntries
  /\ reqs = [r \in ConcurrentReqs |-> IdleReq]
  /\ bg = {}
  /\ up = NoUp
  /\ processed = {}
  /\ pr = NoPr
  /\ sw = NoSw
  /\ dk = NoDk
  /\ hist = [phase |-> "concurrent", limits |-> rateLimit]
  /\ rl = NoRl
  /\ vf = NoVf
  /\ fn = NoFn

\* time passes between the arrivals of the requests
TickConcurrent ==
  /\ \E r \in DOMAIN reqs : reqs[r].pc = "idle"
  /\ \E t \in Instants : t > now /\ now' = t
  /\ UNCHANGED <<others, variant, rateLimit, dirExists, uploads, reqs, bg, rl, vf, fn>>

NextConcurrent ==
  \/ \E r \in ConcurrentReqs :
       \/ ReceiveFrom(r, {ConcurrentKey}, ConcurrentFiles)
       \/ EnsureDir(r) \/ FormData(r) \/ ValidateType(r)
       \/ WriteFile(r) \/ StatFile(r) \/ ReadDir(r) \/ SweepFile(r) \/ SweepEnd(r)
  \/ BackgroundSweep
  \/ TickConcurrent

SpecConcurrent == InitConcurrent /\ [][NextConcurrent]_vars

\* the requests of the client that passed the rate limit under the Map entry
\* whose window ends at w
PassedIn(w) ==
  {r \in DOMAIN reqs : reqs[r].ip = ConcurrentKey /\ reqs[r].window = w}

\* what the entry whose window ends at w had counted before the first request
CountedBefore(w) ==
  IF ConcurrentKey \in DOMAIN hist.limits /\ hist.limits[ConcurrentKey].resetTime = w
    THEN hist.limits[ConcurrentKey].count ELSE 0

\* C21: however the concurrent requests of a client interleave, the requests
\* that pass the rate limit under one window of the Map, together with what
\* that window had counted before, are at most 100: no two requests pass on
\* the same remaining slot.
C21_NoSharedSlot ==
  \A r \in DOMAIN reqs :
    reqs[r].window # 0 =>
      CountedBefore(reqs[r].window) + Cardinality(PassedIn(reqs[r].window))
        <= MAX_REQUESTS

\* one slot was left: one request took it and is past its first await, the
\* other was refused in the same window
C21_Witness ==
  /\ CountedBefore(StartTime + WINDOW_MS) = MAX_REQUESTS - 1
  /\ \E r1, r2 \in DOMAIN reqs :
       /\ reqs[r1].window = StartTime + WINDOW_MS
       /\ reqs[r1].pc \in {"formData", "validate", "write", "stat"}
       /\ reqs[r2].pc = "done"
       /\ reqs[r2].resp.status = 429
       /\ now <= StartTime + WINDOW_MS

\* C29: an error inside the retention sweep does not change the outcome of
\* the upload: every request whose file was written and confirmed by stat
\* answers 200 with its file, also when its sweep failed on an entry that the
\* sweep of a concurrent request had removed.
C29_SweepErrorKeepsSuccess ==
  \A r \in DOMAIN reqs :
    LET q == reqs[r] IN
    (q.pc = "done" /\ q.mtime # 0) =>
      /\ q.resp.status = 200
      /\ q.resp = SuccessResponse(variant, q.filename, q.file, q.size, q.mtime)

\* two uploads were confirmed, the sweep of one removed an old entry and the
\* sweep of the other failed on that entry
C29_Witness ==
  \E r1, r2 \in DOMAIN reqs :
    /\ r1 # r2
    /\ reqs[r1].pc = "done" /\ reqs[r1].threw = "sweep ENOENT"
    /\ reqs[r1].resp.status = 200
    /\ reqs[r2].mtime # 0
    /\ reqs[r2].threw = ""
    /\ DOMAIN OldEntries \cap DOMAIN uploads = {}

----------------------------------------------------------------------------
(* SpecSweep: one retention sweep over a directory of up to MaxEntries     *)
(* entries, in each of its three implementations: the for loop of part_000 *)
(* (cleanupOldFiles), the Promise.all of part_001 (cleanupOldFiles) and    *)
(* the Promise.all of utils/cleanup.ts (cleanupUploads), which alone       *)
(* catches a failing unlink per file.  Every stat and every unlink is a    *)
(* step of its own and may fail.  sw.tasks gives each listed entry's       *)
(* position: "wait" (the loop has not reached it), "stat", "unlink",       *)
(* "done", or "failed" (its stat or unlink threw); sw.errors is the set of *)
(* entries whose stat or unlink failed, caught or not.                     *)

SweepImpls == {"part_000", "part_001", "cleanup"}

HOUR == 60 * 60 * 1000

\* ages of the entries when the sweep starts: 25 hours, exactly MAX_AGE, 1 hour
SweepAges == {25 * HOUR, MAX_AGE, HOUR}

SweepNames == {<<"f", Digits[i + 1]>> : i \in 1..MaxEntries}

\* the directories the sweep can find
SweepDirs ==
  UNION {[names -> {[mtime |-> StartTime - a, size |-> 7] : a \in SweepAges}] :
           names \in SUBSET SweepNames}

\* the orders in which readdir can list the entries
Orders(S) == {o \in [1..Cardinality(S) -> S] : \A n \in S : \E i \in DOMAIN o : o[i] = n}

InitSweep ==
  /\ variant = "part_000"
  /\ now = StartTime
  /\ rateLimit = EmptyMap
  /\ dirExists = TRUE
  /\ uploads \in SweepDirs
  /\ reqs = <<>>
  /\ bg = {}
  /\ up = NoUp
  /\ rl = NoRl
  /\ vf = NoVf
  /\ fn = NoFn
  /\ processed = {}
  /\ pr = NoPr
  /\ dk = NoDk
  /\ hist = NoHist
  /\ \E impl \in SweepImpls :
       sw = [pc |-> "start", impl |-> impl, at |-> 0, before |-> EmptyMap,
             order |-> <<>>, tasks |-> EmptyMap, errors |-> {}]

\* readdir(UPLOAD_DIR) and Date.now(); the for loop starts with the first
\* entry, files.map starts every entry's task
SweepReadDir ==
  /\ sw.pc = "start"
  /\ \/ sw' = [sw EXCEPT !.pc = "resolved", !.errors = {<<"readdir">>}]
     \/ \E o \in Orders(DOMAIN uploads) :
          sw' = [sw EXCEPT
                   !.pc = IF o = <<>> THEN "resolved" ELSE "running",
                   !.at = now, !.before = uploads, !.order = o,
                   !.tasks = [n \in DOMAIN uploads |->
                                IF sw.impl = "part_000" /\ n # o[1]
                                  THEN "wait" ELSE "stat"]]
  /\ UNCHANGED <<variant, now, rateLimit, dirExists, uploads, reqs, bg, rl, vf, fn,
                 processed, pr, dk, hist, up>>

\* the tasks once entry name has finished with result "done" or "failed":
\* the for loop goes on to the next entry unless the error ended it
TasksAfter(name, result) ==
  LET t1 == [sw.tasks EXCEPT ![name] = result]
      waiting == {i \in DOMAIN sw.order : t1[sw.order[i]] = "wait"}
  IN IF sw.impl = "part_000" /\ result = "done" /\ waiting # {}
       THEN LET i == CHOOSE j \in waiting : \A k \in waiting : j <= k
            IN [t1 EXCEPT ![sw.order[i]] = "stat"]
       ELSE t1

\* whether cleanupOldFiles / cleanupUploads has returned: on the first error
\* that reaches its try, or when every entry was handled
PcAfter(tasks, result) ==
  IF sw.pc = "resolved" THEN "resolved"
  ELSE IF result = "failed" THEN "resolved"
  ELSE IF \A n \in DOMAIN tasks : tasks[n] = "done" THEN "resolved"
  ELSE "running"

\* the end of one entry's handling
Finish(name, result, errors) ==
  LET tasks == TasksAfter(name, result)
  IN sw' = [sw EXCEPT !.tasks = tasks, !.errors = errors,
                      !.pc = PcAfter(tasks, result)]

\* const stats = await stat(filePath) and the age test
StatEntry(name) ==
  /\ sw.pc \in {"running", "resolved"}
  /\ name \in DOMAIN sw.tasks
  /\ sw.tasks[name] = "stat"
  /\ \/ /\ name \in DOMAIN uploads
        /\ IF Expired(sw.at, uploads[name].mtime)
             THEN sw' = [sw EXCEPT !.tasks[name] = "unlink"]
             ELSE Finish(name, "done", sw.errors)
     \/ Finish(name, "failed", sw.errors \cup {name})
  /\ UNCHANGED <<variant, now, rateLimit, dirExists, uploads, reqs, bg, rl, vf, fn,
                 processed, pr, dk, hist, up>>

\* await unlink(filePath); cleanupUploads catches its error and goes on
UnlinkEntry(name) ==
  /\ sw.pc \in {"running", "resolved"}
  /\ name \in DOMAIN sw.tasks
  /\ sw.tasks[name] = "unlink"
  /\ \/ /\ name \in DOMAIN uploads
        /\ uploads' = Remove(uploads, name)
        /\ Finish(name, "done", sw.errors)
     \/ /\ UNCHANGED uploads
        /\ Finish(name, IF sw.impl = "cleanup" THEN "done" ELSE "failed",
                  sw.errors \cup {name})
  /\ UNCHANGED <<variant, now, rateLimit, dirExists, reqs, bg, rl, vf, fn,
                 processed, pr, dk, hist, up>>

NextSweep == SweepReadDir \/ \E name \in SweepNames : StatEntry(name) \/ UnlinkEntry(name)

SpecSweep == InitSweep /\ [][NextSweep]_vars

\* nothing of the sweep is left to run
SweepQuiet ==
  /\ sw.pc = "resolved"
  /\ \A n \in DOMAIN sw.tasks : sw.tasks[n] \in {"wait", "done", "failed"}

\* the listed entries older than MAX_AGE when the sweep read the clock
OldAtSweep == {n \in DOMAIN sw.before : sw.at - sw.before[n].mtime > MAX_AGE}

\* C13: when a sweep has run to completion without I/O error, exactly the
\* entries whose age (the sweep's now minus their last-modified time) is
\* greater than 24 hours are deleted, and every entry of age at most 24
\* hours is still present as it was.
C13_SweepDeletesExactlyOld ==
  (SweepQuiet /\ sw.errors = {}) =>
    /\ DOMAIN uploads = (DOMAIN sw.before) \ OldAtSweep
    /\ \A n \in DOMAIN uploads : uploads[n] = sw.before[n]

\* a sweep over an entry aged 25 hours, one aged exactly 24 hours and one
\* aged 1 hour has completed
C13_Witness ==
  /\ SweepQuiet
  /\ sw.errors = {}
  /\ {sw.at - sw.before[n].mtime : n \in DOMAIN sw.before} = SweepAges
  /\ Cardinality(DOMAIN uploads) = 2

\* C14: a failing stat or unlink of one entry does not abort the sweep:
\* every other entry older than 24 hours has been deleted when the sweep
\* has ended.
C14_FailureDoesNotAbort ==
  (SweepQuiet /\ <<"readdir">> \notin sw.errors) =>
    \A n \in OldAtSweep \ sw.errors : n \notin DOMAIN uploads

----------------------------------------------------------------------------
(* SpecProcess: the processing route (app/api/process/route.ts) and who    *)
(* calls it.  pr.sender is "api" for a caller that posts the fields the    *)
(* route reads, "form_a" and "form_b" for the two versions of the client   *)
(* form's handleProcess (part_002:331-406 and part_002:1445-1537), which   *)
(* post one request per file.  pr.srv is the request being handled, pr.cl  *)
(* the state of the form.  A multipart body is a function from field name  *)
(* to the sequence of values appended under that name; a value is a File   *)
(* or the text JSON.stringify made.  The external tool is a step that      *)
(* succeeds or fails.                                                      *)

NameJpg == <<"b", ".", "j", "p", "g">>
ProcNames == {NamePng, NameJpg}

\* the File a client holds for a name
ProcFile(name) == FileOf(name, "image/png", PngHead, 2048)

\* the batches of files of one request, and the files of the form
Batches == {[i \in DOMAIN b |-> ProcFile(b[i])] : b \in SeqsUpTo(ProcNames, MaxBatch)}

\* JSON.stringify(value) as a form field
JSONstringify(value) == [kind |-> "text", json |-> value]

\* formData.get(name): the first value, or null
FormGet(form, name) ==
  IF name \in DOMAIN form /\ form[name] # <<>> THEN form[name][1]
                                              ELSE [kind |-> "null"]

\* formData.getAll(name)
FormGetAll(form, name) == IF name \in DOMAIN form THEN form[name] ELSE <<>>

\* JSON.parse(x as string): the value of a JSON text, null for null (whose
\* string is 'null'), a SyntaxError for a File (whose string is
\* '[object File]')
JSONparse(x) ==
  IF x.kind = "text" THEN [ok |-> TRUE, null |-> FALSE, value |-> x.json]
  ELSE IF x.kind = "null" THEN [ok |-> TRUE, null |-> TRUE, value |-> [none |-> TRUE]]
  ELSE [ok |-> FALSE, null |-> TRUE, value |-> [none |-> TRUE]]

OutputFormats == {<<"J","P","G">>, <<"W","e","b","P">>, <<"p","n","g">>}

\* config objects a caller of the route can post: with and without
\* dimensions, and one without outputFormat
ApiConfigs ==
  {[outputFormat |-> f, resize |-> r, colorCorrection |-> FALSE,
    dimensions |-> [width |-> 100, height |-> 100]] :
      f \in OutputFormats, r \in BOOLEAN}
  \cup {[outputFormat |-> <<"J","P","G">>, resize |-> TRUE, colorCorrection |-> TRUE]}
  \cup {[resize |-> FALSE, colorCorrection |-> FALSE]}

\* the options state of the form (ProcessingOptions)
FormOptions ==
  {[outputFormat |-> f, quality |-> 80, resize |-> r, width |-> 100,
    height |-> 100, maintainAspectRatio |-> TRUE, colorCorrection |-> FALSE] :
      f \in {<<"P","N","G">>, <<"J","P","G">>}, r \in BOOLEAN}

Senders == {"api", "form_a", "form_b"}

\* the body handleProcess posts for one file
FormBody(sender, file, options) ==
  IF sender = "form_a"
    THEN [f \in {"file", "options"} |->
            IF f = "file" THEN <<file>> ELSE <<JSONstringify(options)>>]
    ELSE [f \in {"fileData", "options"} |->
            IF f = "fileData"
              THEN <<JSONstringify([url |-> <<"b","l","o","b",":">> \o file.name])>>
              ELSE <<JSONstringify(options)>>]

\* the body a caller of the route posts: every file under 'images', the
\* config under 'config'
ApiBody(files, config) ==
  [f \in {"images", "config"} |->
     IF f = "images" THEN files ELSE <<JSONstringify(config)>>]

NoCommand == [input |-> <<>>, resize |-> <<>>, colorCorrection |-> FALSE,
              output |-> <<>>]

\* a request that has just reached POST
NewRequest(form) ==
  [pc |-> "formData", form |-> form, files |-> <<>>,
   config |-> [ok |-> TRUE, null |-> TRUE, value |-> [none |-> TRUE]],
   i |-> 0, processedFiles |-> <<>>, uploadFilename |-> <<>>,
   outputFilename |-> <<>>, command |-> NoCommand, wrote |-> {},
   wroteAt |-> 0, execs |-> <<>>, threw |-> "", resp |-> NoResp]

NoRequest == [NewRequest(EmptyMap) EXCEPT !.pc = "idle"]

NoClient == [pc |-> "off", files |-> <<>>, options |-> [none |-> TRUE], i |-> 0,
             processing |-> FALSE, activeTab |-> "options",
             processedFiles |-> <<>>, uploadError |-> "", answers |-> <<>>]

InitProcess ==
  /\ variant = "route"
  /\ now = StartTime
  /\ rateLimit = EmptyMap
  /\ dirExists \in BOOLEAN
  /\ uploads \in IF dirExists THEN {EmptyMap, OldEntries} ELSE {EmptyMap}
  /\ reqs = <<>>
  /\ bg = {}
  /\ up = NoUp
  /\ rl = NoRl
  /\ vf = NoVf
  /\ fn = NoFn
  /\ processed = {}
  /\ sw = NoSw
  /\ dk = NoDk
  /\ hist = NoHist
  /\ \/ \E files \in Batches, config \in ApiConfigs :
          pr = [sender |-> "api", cl |-> NoClient,
                srv |-> NewRequest(ApiBody(files, config))]
     \/ \E sender \in {"form_a", "form_b"}, files \in Batches \ {<<>>},
           options \in FormOptions :
          pr = [sender |-> sender, srv |-> NoRequest,
                cl |-> [NoClient EXCEPT !.pc = "ready", !.files = files,
                                        !.options = options]]

\* cleanupOldFiles run without error
cleanupOldFiles(dir, at) ==
  [n \in {m \in DOMAIN dir : ~Expired(at, dir[m].mtime)} |-> dir[n]]

\* the frame of the processing route and of the form
procFrame == <<variant, rateLimit, reqs, bg, rl, vf, fn, sw, dk, hist, up>>

\* the catch block of POST, with the body that also carries the files
\* converted so far
ProcessFailure_Partial(processedFiles) ==
  [status |-> 500,
   body |-> [error |-> "Failed to process images", files |-> processedFiles],
   headers |-> {}]

\* the catch block of POST
ProcessFailure(processedFiles) ==
  [status |-> 500, body |-> [error |-> "Failed to process images"], headers |-> {}]

\* the request ends in the catch block because call threw
ProcThrow(call) ==
  pr' = [pr EXCEPT !.srv.pc = "done", !.srv.threw = call,
                   !.srv.resp = ProcessFailure(pr.srv.processedFiles)]

\* req.formData(), getAll('images'), JSON.parse(get('config')), the test
\* for an empty list
ProcFormData ==
  /\ pr.srv.pc = "formData"
  /\ \/ ProcThrow("formData")
     \/ LET files == FormGetAll(pr.srv.form, "images")
            config == JSONparse(FormGet(pr.srv.form, "config"))
        IN IF ~config.ok THEN ProcThrow("JSON.parse")
           ELSE IF Len(files) = 0
             THEN pr' = [pr EXCEPT
                    !.srv.pc = "done", !.srv.config = config,
                    !.srv.resp = [status |-> 400,
                                  body |-> [error |-> "No files provided"],
                                  headers |-> {}]]
             ELSE pr' = [pr EXCEPT !.srv.pc = "mkdir", !.srv.files = files,
                                   !.srv.config = config]
  /\ UNCHANGED <<now, dirExists, uploads, processed>>
  /\ UNCHANGED procFrame

\* ensureDirectories: mkdir of both directories, recursive
ensureDirectories ==
  /\ pr.srv.pc = "mkdir"
  /\ \/ /\ dirExists' = TRUE
        /\ pr' = [pr EXCEPT !.srv.pc = "write", !.srv.i = 1]
     \/ /\ UNCHANGED dirExists
        /\ ProcThrow("mkdir")
  /\ UNCHANGED <<now, uploads, processed>>
  /\ UNCHANGED procFrame

\* config.outputFormat.toLowerCase() without the call of toLowerCase
OutputFormatOf_AsGiven(config) == config.outputFormat

\* config.outputFormat.toLowerCase()
OutputFormatOf(config) == toLowerCase(config.outputFormat)

\* the convert command built for one file
BuildCommand(config, uploadFilename, outputFilename) ==
  [input |-> uploadFilename,
   resize |-> IF /\ "resize" \in DOMAIN config /\ config.resize
                 /\ "dimensions" \in DOMAIN config
                THEN <<config.dimensions.width, config.dimensions.height>>
                ELSE <<>>,
   colorCorrection |-> "colorCorrection" \in DOMAIN config /\ config.colorCorrection,
   output |-> outputFilename \o <<".">> \o OutputFormatOf(config)]

ProcessedPrefix == <<"p","r","o","c","e","s","s","e","d","-">>

\* the body of the loop for file i up to its exec: the temporary copy is
\* written under `${uniquePrefix}-${file.name}` and the command is built;
\* reading a property of a null config, or toLowerCase of a missing
\* outputFormat, throws a TypeError once the copy is written
ProcWrite ==
  /\ pr.srv.pc = "write"
  /\ LET file == pr.srv.files[pr.srv.i] IN
     \/ /\ UNCHANGED uploads
        /\ ProcThrow("writeFile")
     \/ \E rnd \in RandomSuffixes :
          LET uniquePrefix == UniqueId(now, rnd)
              uploadFilename == uniquePrefix \o <<"-">> \o file.name
              outputFilename == ProcessedPrefix \o uniquePrefix \o <<"-">> \o file.name
              config == pr.srv.config
              wrote == pr.srv.wrote \cup {uploadFilename}
          IN /\ dirExists
             /\ uploads' = MapSet(uploads, uploadFilename,
                                  [mtime |-> now, size |-> file.size])
             /\ IF config.null \/ "outputFormat" \notin DOMAIN config.value
                  THEN pr' = [pr EXCEPT
                         !.srv.pc = "done", !.srv.threw = "TypeError",
                         !.srv.uploadFilename = uploadFilename,
                         !.srv.wrote = wrote, !.srv.wroteAt = now,
                         !.srv.resp = ProcessFailure(pr.srv.processedFiles)]
                  ELSE pr' = [pr EXCEPT
                         !.srv.pc = "exec",
                         !.srv.uploadFilename = uploadFilename,
                         !.srv.outputFilename = outputFilename,
                         !.srv.wrote = wrote, !.srv.wroteAt = now,
                         !.srv.command = BuildCommand(config.value, uploadFilename,
                                                      outputFilename)]
  /\ UNCHANGED <<now, dirExists, processed>>
  /\ UNCHANGED procFrame

\* a catch block that unlinks the temporary copy of the file that failed
CatchLeaves_Unlinked(dir, name) == Remove(dir, name)

\* what the catch block of POST leaves of the uploads directory: it logs and
\* answers, and unlinks nothing
CatchLeaves(dir, name) == dir

\* an exec with a timeout: the invocation that does not exit is killed and
\* the request ends in the catch block
ExecNeverExits_TimedOut(srv) ==
  [srv EXCEPT !.pc = "done", !.threw = "exec", !.execs = Append(@, "hung"),
              !.resp = ProcessFailure(srv.processedFiles)]

\* execAsync(command) is called without a timeout: while the tool does not
\* exit the promise stays pending and POST stays at its await
ExecNeverExits(srv) == [srv EXCEPT !.pc = "hung", !.execs = Append(@, "hung")]

\* await execAsync(command): the tool writes the output file, or fails, or
\* never exits
ProcExec ==
  /\ pr.srv.pc = "exec"
  /\ \/ /\ processed' = processed \cup {pr.srv.command.output}
        /\ pr' = [pr EXCEPT !.srv.pc = "unlink",
                            !.srv.execs = Append(@, "ok")]
        /\ UNCHANGED uploads
     \/ /\ UNCHANGED processed
        /\ uploads' = CatchLeaves(uploads, pr.srv.uploadFilename)
        /\ pr' = [pr EXCEPT
                    !.srv.pc = "done", !.srv.threw = "exec",
                    !.srv.execs = Append(@, "failed"),
                    !.srv.resp = ProcessFailure(pr.srv.processedFiles)]
     \/ /\ UNCHANGED <<processed, uploads>>
        /\ pr' = [pr EXCEPT !.srv = ExecNeverExits(pr.srv)]
  /\ UNCHANGED <<now, dirExists>>
  /\ UNCHANGED procFrame

\* unlink that leaves the entry in place
unlink_Kept(dir, name) == dir

\* unlink(path) that succeeds
unlink(dir, name) == Remove(dir, name)

UrlPrefix == <<"/","p","r","o","c","e","s","s","e","d","/">>

\* the descriptor pushed for a converted file
Descriptor(file, outputFilename, config) ==
  [original |-> file.name,
   processed |-> outputFilename \o <<".">> \o OutputFormatOf(config),
   url |-> UrlPrefix \o outputFilename \o <<".">> \o OutputFormatOf(config)]

\* await unlink(uploadPath), processedFiles.push, and the next file or the
\* success response
ProcUnlink ==
  /\ pr.srv.pc = "unlink"
  /\ \/ /\ UNCHANGED uploads
        /\ ProcThrow("unlink")
     \/ /\ pr.srv.uploadFilename \in DOMAIN uploads
        /\ uploads' = unlink(uploads, pr.srv.uploadFilename)
        /\ LET files == Append(pr.srv.processedFiles,
                               Descriptor(pr.srv.files[pr.srv.i],
                                          pr.srv.outputFilename, pr.srv.config.value))
           IN IF pr.srv.i < Len(pr.srv.files)
                THEN pr' = [pr EXCEPT !.srv.pc = "write", !.srv.i = @ + 1,
                                      !.srv.processedFiles = files]
                ELSE pr' = [pr EXCEPT
                       !.srv.pc = "done", !.srv.processedFiles = files,
                       !.srv.resp = [status |-> 200,
                                     body |-> [success |-> TRUE, files |-> files],
                                     headers |-> {}]]
  /\ UNCHANGED <<now, dirExists, processed>>
  /\ UNCHANGED procFrame

\* time passes before a file's Date.now()
TickProcess ==
  /\ pr.srv.pc = "write"
  /\ \E t \in Instants : t > now /\ now' = t
  /\ UNCHANGED <<dirExists, uploads, processed, pr>>
  /\ UNCHANGED procFrame

\* the click on 'Process Images': handleProcess runs up to its first await,
\* the fetch for the first file, and the click handler then shows the
\* results tab
ClickProcess ==
  /\ pr.cl.pc = "ready"
  /\ pr' = [pr EXCEPT
              !.cl.pc = "fetch", !.cl.processing = TRUE, !.cl.uploadError = "",
              !.cl.i = 1, !.cl.activeTab = "results",
              !.srv = NewRequest(FormBody(pr.sender, pr.cl.files[1], pr.cl.options))]
  /\ UNCHANGED <<now, dirExists, uploads, processed>>
  /\ UNCHANGED procFrame

\* the catch and finally blocks of handleProcess
ClientFailed(message, status) ==
  [pr.cl EXCEPT !.pc = "done", !.uploadError = message, !.processing = FALSE,
                !.answers = Append(@, status)]

\* handleProcess resumes with the response: form_a tests response.ok before
\* it reads the body, form_b after; both then read data.processedUrl
ClientReceive ==
  /\ pr.cl.pc = "fetch"
  /\ pr.srv.pc = "done"
  /\ LET resp == pr.srv.resp
         ok == resp.status \in 200..299
         file == pr.cl.files[pr.cl.i]
     IN IF ~ok
          THEN pr' = [pr EXCEPT !.cl =
                 ClientFailed(IF pr.sender = "form_b" /\ "error" \in DOMAIN resp.body
                                THEN resp.body.error ELSE "Processing failed",
                              resp.status)]
        ELSE IF "processedUrl" \notin DOMAIN resp.body
          THEN pr' = [pr EXCEPT !.cl =
                 ClientFailed("Cannot read properties of undefined (reading 'split')",
                              resp.status)]
        ELSE LET entry == [originalName |-> file.name,
                           processedUrl |-> resp.body.processedUrl,
                           status |-> "complete"]
                 cl == [pr.cl EXCEPT !.processedFiles = Append(@, entry),
                                     !.answers = Append(@, resp.status)]
             IN IF pr.cl.i < Len(pr.cl.files)
                  THEN pr' = [pr EXCEPT
                         !.cl = [cl EXCEPT !.i = @ + 1],
                         !.srv = NewRequest(FormBody(pr.sender,
                                                     pr.cl.files[pr.cl.i + 1],
                                                     pr.cl.options))]
                  ELSE pr' = [pr EXCEPT
                         !.cl = [cl EXCEPT !.pc = "done", !.activeTab = "results",
                                           !.processing = FALSE]]
  /\ UNCHANGED <<now, dirExists, uploads, processed>>
  /\ UNCHANGED procFrame

\* the times at which a retention sweep runs after the request: an hour and
\* a day and an hour after the clock started
LaterInstants == {StartTime + HOUR, StartTime + MAX_AGE + HOUR}

\* a retention sweep over the uploads directory at a later time
LaterSweep ==
  /\ pr.srv.pc = "done"
  /\ pr.srv.threw = "exec"
  /\ \E t \in LaterInstants :
       /\ t > now
       /\ now' = t
       /\ uploads' = cleanupOldFiles(uploads, t)
  /\ UNCHANGED <<dirExists, processed, pr>>
  /\ UNCHANGED procFrame

\* the steps of POST
ServerStep ==
  ProcFormData \/ ensureDirectories \/ ProcWrite \/ ProcExec \/ ProcUnlink

NextProcess ==
  \/ ProcFormData \/ ensureDirectories \/ ProcWrite \/ ProcExec \/ ProcUnlink
  \/ TickProcess \/ ClickProcess \/ ClientReceive \/ LaterSweep

SpecProcess == InitProcess /\ [][NextProcess]_vars

\* the runtime resumes POST after each await whose operation has settled
SpecProcessFair == SpecProcess /\ WF_vars(ServerStep)

EndsWith(s, suffix) ==
  Len(s) >= Len(suffix) /\ SubSeq(s, Len(s) - Len(suffix) + 1, Len(s)) = suffix

\* C15: when the external tool fails for a file of the batch, the request
\* is answered 500 with the body {error: 'Failed to process images'} and
\* nothing else, whatever was converted before, and no later file of the
\* batch is written or converted.
C15_ToolFailureFailsBatch ==
  (pr.srv.pc = "done" /\ pr.srv.threw = "exec") =>
    /\ pr.srv.resp.status = 500
    /\ pr.srv.resp.body = [error |-> "Failed to process images"]
    /\ Len(pr.srv.execs) = pr.srv.i
    /\ Cardinality(pr.srv.wrote) <= pr.srv.i
    /\ Len(pr.srv.processedFiles) = pr.srv.i - 1

\* the tool failed on the second file after the first was converted
C15_Witness ==
  /\ pr.srv.pc = "done"
  /\ pr.srv.threw = "exec"
  /\ pr.srv.execs = <<"ok", "failed">>
  /\ Len(pr.srv.processedFiles) = 1
  /\ pr.srv.resp.status = 500

\* C16: when every invocation of the tool succeeded and the request ran to
\* its end, the answer is 200 {success: true, files} with one descriptor
\* per input file in input order, each url being '/processed/' followed by
\* the processed name and ending in '.' and the lower-cased outputFormat.
C16_OneDescriptorPerFile ==
  (pr.srv.pc = "done" /\ pr.srv.execs # <<>> /\ pr.srv.threw = "") =>
    LET body == pr.srv.resp.body
        files == pr.srv.files
    IN /\ pr.srv.resp.status = 200
       /\ DOMAIN body = {"success", "files"}
       /\ body.success = TRUE
       /\ Len(body.files) = Len(files)
       /\ \A i \in DOMAIN files :
            /\ body.files[i].original = files[i].name
            /\ body.files[i].url = UrlPrefix \o body.files[i].processed
            /\ EndsWith(body.files[i].url,
                        <<".">> \o toLowerCase(pr.srv.config.value.outputFormat))
            /\ body.files[i].processed \in processed

\* one file, outputFormat JPG, resize to 100x100: one descriptor, url
\* ending in .jpg
C16_Witness ==
  /\ pr.srv.pc = "done"
  /\ pr.srv.resp.status = 200
  /\ Len(pr.srv.files) = 1
  /\ pr.srv.config.value.outputFormat = <<"J","P","G">>
  /\ pr.srv.command.resize = <<100, 100>>
  /\ Len(pr.srv.resp.body.files) = 1
  /\ EndsWith(pr.srv.resp.body.files[1].url, <<".","j","p","g">>)

\* C18: after a processing request answered with success none of the
\* temporary copies it wrote is in the uploads directory, and while a file
\* of the batch is being written or converted the copies of the files
\* before it are already gone.
C18_TemporaryCopiesDeleted ==
  /\ (pr.srv.pc = "done" /\ pr.srv.resp.status = 200) =>
       pr.srv.wrote \cap DOMAIN uploads = {}
  /\ pr.srv.pc = "write" => pr.srv.wrote \cap DOMAIN uploads = {}
  /\ pr.srv.pc \in {"exec", "unlink"} =>
       pr.srv.wrote \cap DOMAIN uploads \subseteq {pr.srv.uploadFilename}

\* a batch of two files was converted and both copies are gone
C18_Witness ==
  /\ pr.srv.pc = "done"
  /\ pr.srv.resp.status = 200
  /\ Cardinality(pr.srv.wrote) = 2
  /\ pr.srv.wrote \cap DOMAIN uploads = {}

\* C24: when the tool fails for a file, the request is answered 500 and the
\* temporary copy of that file is not deleted by the handler: it is in the
\* uploads directory as long as it is not older than MAX_AGE, and is gone
\* only once a retention sweep found it older.
C24_FailedCopyStays ==
  (pr.srv.pc = "done" /\ pr.srv.threw = "exec") =>
    /\ pr.srv.resp.status = 500
    /\ pr.srv.uploadFilename \in pr.srv.wrote
    /\ ~Expired(now, pr.srv.wroteAt) => pr.srv.uploadFilename \in DOMAIN uploads

\* the tool failed, a sweep ran an hour later and the copy is still there
C24_Witness ==
  /\ pr.srv.pc = "done"
  /\ pr.srv.threw = "exec"
  /\ now = StartTime + HOUR
  /\ pr.srv.uploadFilename \in DOMAIN uploads

\* C25: a request whose tool invocations all exit is answered, once; an
\* invocation that never exits leaves the request at its await for ever,
\* without a response and with the rest of the batch neither written nor
\* converted.
C25_NoTimeout ==
  /\ []((\E i \in DOMAIN pr.srv.execs : pr.srv.execs[i] = "hung") =>
          /\ pr.srv.pc = "hung"
          /\ pr.srv.resp = NoResp
          /\ Len(pr.srv.execs) = pr.srv.i
          /\ Len(pr.srv.processedFiles) = pr.srv.i - 1
          /\ Cardinality(pr.srv.wrote) <= pr.srv.i)
  /\ [][pr.srv.pc = "hung" => pr'.srv = pr.srv]_vars
  /\ [][(pr.srv.pc = "done" /\ pr'.srv.pc = "done") => pr'.srv.resp = pr.srv.resp]_vars
  /\ (pr.srv.pc \in {"formData", "mkdir", "write", "exec", "unlink"})
       ~> (pr.srv.pc = "hung" \/ (pr.srv.pc = "done" /\ pr.srv.resp # NoResp))

\* the tool never exits on the first file of a batch of two
C25_Witness ==
  /\ pr.srv.pc = "hung"
  /\ pr.srv.i = 1
  /\ Len(pr.srv.files) = 2
  /\ pr.srv.resp = NoResp

\* C20: a processing request sent by the form's handleProcess is accepted
\* by the route: unless the tool or a system call fails, every request is
\* answered 200 and the form ends with one processed-file entry per file,
\* processing = false and the results tab active.
C20_FormRequestAccepted ==
  (pr.sender \in {"form_a", "form_b"} /\ pr.cl.pc = "done"
     /\ pr.srv.threw = "") =>
    /\ \A i \in DOMAIN pr.cl.answers : pr.cl.answers[i] = 200
    /\ Len(pr.cl.processedFiles) = Len(pr.cl.files)
    /\ pr.cl.processing = FALSE
    /\ pr.cl.activeTab = "results"

----------------------------------------------------------------------------
(* SpecDisk: the uploads directory under a sequence of upload, metadata    *)
(* and process requests, each handler run from its first to its last line  *)
(* in one step (requests one after the other; interleavings add behaviours *)
(* and remove none).  dk.stored records what successful uploads stored.    *)
(* The uniqueness tokens are taken to be unique: an upload or a temporary  *)
(* copy never gets a name already in the directory.                        *)

\* the clock of SpecDisk: two instants a millisecond apart and one more
\* than MAX_AGE later
DiskInstants == {StartTime, StartTime + 1, StartTime + MAX_AGE + 2}

\* names a client can choose for the File it posts: any name, among them
\* the names the upload responses told it
ClientNames == {NamePng} \cup DOMAIN dk.stored

InitDisk ==
  /\ variant \in Variants
  /\ now = StartTime
  /\ rateLimit = EmptyMap
  /\ dirExists = TRUE
  /\ uploads \in {EmptyMap, OldEntries}
  /\ reqs = <<>>
  /\ bg = {}
  /\ up = NoUp
  /\ rl = NoRl
  /\ vf = NoVf
  /\ fn = NoFn
  /\ processed = {}
  /\ pr = NoPr
  /\ sw = NoSw
  /\ hist = NoHist
  /\ dk = [phase |-> "on", stored |-> EmptyMap, requests |-> 0, last |-> ""]

diskFrame == <<variant, rateLimit, dirExists, reqs, bg, rl, vf, fn, pr, sw, hist, up>>

\* the upload route storing a valid file: writeFile under the generated
\* name, stat, and in part_000 and part_001 the sweep
DiskUpload ==
  /\ dk.requests < MaxDiskRequests
  /\ \E rnd \in RandomSuffixes :
       LET file == ProcFile(NamePng)
           filename == generateSafeFilename(variant, file.name, now, rnd)
           entry == [mtime |-> now, size |-> file.size]
           written == MapSet(uploads, filename, entry)
       IN /\ validateFileType(variant, file)
          /\ filename \notin DOMAIN uploads
          /\ uploads' = IF variant \in FullVariants
                          THEN cleanupOldFiles(written, now) ELSE written
          /\ dk' = [dk EXCEPT !.stored = MapSet(@, filename, entry),
                              !.requests = @ + 1, !.last = "upload"]
  /\ UNCHANGED <<now, processed>>
  /\ UNCHANGED diskFrame

\* the metadata route: the posted File is written under its own name
\* (path.join(uploadDir, file.name)), identify runs, the file is unlinked;
\* identify or unlink may fail and leave the file
DiskMetadata ==
  /\ dk.requests < MaxDiskRequests
  /\ \E name \in ClientNames :
       LET written == MapSet(uploads, name, [mtime |-> now, size |-> 5])
       IN \/ uploads' = unlink(written, name)
          \/ uploads' = written
          \/ UNCHANGED uploads
  /\ dk' = [dk EXCEPT !.requests = @ + 1, !.last = "metadata"]
  /\ UNCHANGED <<now, processed>>
  /\ UNCHANGED diskFrame

\* the process route for one file: the copy is written under
\* `${uniquePrefix}-${file.name}`, convert runs, the copy is unlinked;
\* convert or unlink may fail and leave the copy
DiskProcess ==
  /\ dk.requests < MaxDiskRequests
  /\ \E name \in ClientNames, rnd \in RandomSuffixes :
       LET uploadFilename == UniqueId(now, rnd) \o <<"-">> \o name
           output == ProcessedPrefix \o uploadFilename \o <<".","p","n","g">>
           written == MapSet(uploads, uploadFilename, [mtime |-> now, size |-> 2048])
       IN /\ uploadFilename \notin DOMAIN uploads
          /\ \/ uploads' = unlink(written, uploadFilename) /\ processed' = processed \cup {output}
             \/ uploads' = written /\ processed' = processed \cup {output}
             \/ uploads' = written /\ UNCHANGED processed
             \/ UNCHANGED <<uploads, processed>>
  /\ dk' = [dk EXCEPT !.requests = @ + 1, !.last = "process"]
  /\ UNCHANGED now
  /\ UNCHANGED diskFrame

TickDisk ==
  /\ \E t \in DiskInstants : t > now /\ now' = t
  /\ UNCHANGED <<uploads, processed, dk>>
  /\ UNCHANGED diskFrame

NextDisk == DiskUpload \/ DiskMetadata \/ DiskProcess \/ TickDisk

SpecDisk == InitDisk /\ [][NextDisk]_vars

\* C17: a file stored by a successful upload is neither overwritten nor
\* deleted by a request handler except by the retention sweep once its age
\* exceeds 24 hours: as long as it is at most 24 hours old it is in the
\* uploads directory as it was stored.
C17_StoredFilesKept ==
  \A n \in DOMAIN dk.stored :
    now - dk.stored[n].mtime <= MAX_AGE =>
      /\ n \in DOMAIN uploads
      /\ uploads[n] = dk.stored[n]

----------------------------------------------------------------------------
(* SpecBurst: the calls of checkRateLimit for one key from an empty Map,   *)
(* with hist.log counting, for each instant, the calls made at it that     *)
(* returned true, hist.made the calls made at it, and hist.opened the      *)
(* instants of the calls that found no entry or an elapsed window and so   *)
(* opened a new one.                                                       *)

\* the first millisecond, the last millisecond of the window a call at the
\* first opens, and the millisecond after it
BurstInstants == {StartTime, StartTime + WINDOW_MS, StartTime + WINDOW_MS + 1}

BurstKey == "10.0.0.1"

InitBurst ==
  /\ variant \in FullVariants
  /\ now = StartTime
  /\ rateLimit = EmptyMap
  /\ dirExists = TRUE
  /\ uploads = EmptyMap
  /\ reqs = <<>>
  /\ bg = {}
  /\ up = NoUp
  /\ rl = NoRl
  /\ vf = NoVf
  /\ fn = NoFn
  /\ processed = {}
  /\ pr = NoPr
  /\ sw = NoSw
  /\ dk = NoDk
  /\ hist = [phase |-> "on", log |-> [t \in BurstInstants |-> 0],
             made |-> [t \in BurstInstants |-> 0], opened |-> {}]

burstFrame == <<variant, dirExists, uploads, reqs, bg, rl, vf, fn, processed, pr,
                sw, dk, up>>

\* one call checkRateLimit(BurstKey) at the current time
BurstCall ==
  LET res == checkRateLimit(rateLimit, BurstKey, now)
      opens == \/ BurstKey \notin DOMAIN rateLimit
               \/ now > rateLimit[BurstKey].resetTime
  IN
  /\ hist.made[now] < MAX_REQUESTS + MaxExtraCalls
  /\ rateLimit' = res.map
  /\ hist' = [hist EXCEPT !.made[now] = @ + 1,
                          !.log[now] = IF res.ok THEN @ + 1 ELSE @,
                          !.opened = IF opens THEN @ \cup {now} ELSE @]
  /\ UNCHANGED now
  /\ UNCHANGED burstFrame

TickBurst ==
  /\ \E t \in BurstInstants : t > now /\ now' = t
  /\ UNCHANGED <<rateLimit, hist>>
  /\ UNCHANGED burstFrame

SpecBurst == InitBurst /\ [][BurstCall \/ TickBurst]_vars

RECURSIVE SumLog(_)
SumLog(S) ==
  IF S = {} THEN 0
  ELSE LET t == CHOOSE x \in S : TRUE IN hist.log[t] + SumLog(S \ {t})

\* the calls that returned true in the 15 minutes that start at s
AllowedFrom(s) == SumLog({t \in BurstInstants : s <= t /\ t < s + WINDOW_MS})

\* C19 as claimed: in every interval of 15 minutes, wherever it starts, at
\* most 100 calls of checkRateLimit for the key return true.
C19_SlidingLimit ==
  \A s \in BurstInstants : AllowedFrom(s) <= MAX_REQUESTS

\* the calls that returned true in the window opened at s, which lasts
\* until a call is made later than s + WINDOW_MS
AllowedInWindow(s) == SumLog({t \in BurstInstants : s <= t /\ t <= s + WINDOW_MS})

\* C19: in every window of the limiter (from the call that opened it to 15
\* minutes later) at most 100 calls of checkRateLimit for the key return
\* true, and in an interval of 15 minutes that is not aligned with a window
\* at most 200 do.
C19_WindowLimit ==
  /\ \A s \in hist.opened : AllowedInWindow(s) <= MAX_REQUESTS
  /\ \A s \in BurstInstants : AllowedFrom(s) <= 2 * MAX_REQUESTS

\* a window was used up, and the 15 minutes that start at its last
\* millisecond hold more than 100 calls that returned true
C19_Witness ==
  /\ \E s \in hist.opened : AllowedInWindow(s) = MAX_REQUESTS
  /\ AllowedFrom(StartTime + WINDOW_MS) > MAX_REQUESTS

----------------------------------------------------------------------------
(* SpecClient: the file list of the form and its uploads, in the three     *)
(* versions of ImageProcessingForm: "form_a" (part_002:207, fetch with the *)
(* signal of abortControllerRef), "form_b" (part_002:1293, XMLHttpRequest; *)
(* the AbortController is created and never connected) and "component"     *)
(* (components/ImageProcessingForm.tsx, fetch without a signal).  A file   *)
(* is its position in the list.  up.files is the status of each file,      *)
(* up.tasks the running call of handleFileUpload for each file: where it   *)
(* is (pc), the controller whose signal its request carries (ctl, 0 for    *)
(* none), who started it (origin), how the request ended (answer), and     *)
(* whether the call has set the status 'uploading' (shown).  up.dirty says *)
(* that setFiles was called since the last render, up.controller is        *)
(* abortControllerRef.current, up.aborted the controllers aborted so far,  *)
(* up.last the file and kind of the last status update.  One drop is made, *)
(* and Retry is clicked on a file only while no upload of it is running.   *)

MaxFiles == 2
MaxRetries == 1

Forms == {"form_a", "form_b", "component"}

NoTask == [pc |-> "none", ctl |-> 0, origin |-> "", answer |-> "", shown |-> FALSE]

InitClient ==
  /\ variant = "route"
  /\ now = StartTime
  /\ rateLimit = EmptyMap
  /\ dirExists = TRUE
  /\ uploads = EmptyMap
  /\ reqs = <<>>
  /\ bg = {}
  /\ rl = NoRl
  /\ vf = NoVf
  /\ fn = NoFn
  /\ processed = {}
  /\ pr = NoPr
  /\ sw = NoSw
  /\ dk = NoDk
  /\ hist = NoHist
  /\ \E form \in Forms :
       up = [phase |-> "on", form |-> form, mounted |-> TRUE, files |-> <<>>,
             tasks |-> <<>>, dirty |-> FALSE, controller |-> 0, made |-> 0,
             aborted |-> {}, retries |-> 0, last |-> [file |-> 0, op |-> ""]]

clientFrame == <<variant, now, rateLimit, dirExists, uploads, reqs, bg, rl, vf, fn,
                 processed, pr, sw, dk, hist>>

\* setFiles(current => current.map(f => f.id === file.id ? {...f, status} : f)):
\* an update of an unmounted component is dropped
setFiles(u, i, status, op) ==
  IF u.mounted
    THEN [u EXCEPT !.files[i] = status, !.dirty = TRUE,
                   !.last = [file |-> i, op |-> op]]
    ELSE [u EXCEPT !.last = [file |-> i, op |-> op]]

\* handleFileUpload(file) up to its first await: extractMetadata in part_002,
\* the fetch in the component
StartUpload(u, i, origin, shown) ==
  [u EXCEPT !.tasks[i] =
     [pc |-> IF u.form = "component" THEN "request" ELSE "metadata",
      ctl |-> 0, origin |-> origin, answer |-> "", shown |-> shown]]

\* the end of handleFileUpload(file): the status update, and the for loop of
\* onDrop going on to the next file
EndUpload(u, i, status, op) ==
  LET ended == [setFiles(u, i, status, op) EXCEPT !.tasks[i].pc = "none"]
  IN IF u.tasks[i].origin = "drop" /\ i < Len(u.files)
       THEN StartUpload(ended, i + 1, "drop", TRUE)
       ELSE ended

\* onDrop: the files are appended with status 'uploading' and the first is
\* uploaded
Drop ==
  /\ up.mounted
  /\ up.files = <<>>
  /\ \E n \in 1..MaxFiles :
       up' = StartUpload([up EXCEPT !.files = [i \in 1..n |-> "uploading"],
                                    !.tasks = [i \in 1..n |-> NoTask],
                                    !.dirty = TRUE],
                         1, "drop", TRUE)
  /\ UNCHANGED clientFrame

\* extractMetadata settles (part_002): on success the status becomes
\* 'uploading', a new AbortController is stored and the request is sent; on
\* failure the catch block marks the file 'error'
MetadataDone(i) ==
  /\ up.tasks[i].pc = "metadata"
  /\ \/ up' = [setFiles(up, i, "uploading", "uploading") EXCEPT
                 !.controller = up.made + 1, !.made = up.made + 1,
                 !.tasks[i].pc = "request", !.tasks[i].shown = TRUE,
                 !.tasks[i].ctl = IF up.form = "form_a" THEN up.made + 1 ELSE 0]
     \/ up' = EndUpload(up, i, "error", "failed")
  /\ UNCHANGED clientFrame

\* the request is answered by the server with a 2xx or another status, or
\* fails in the network
RequestSettles(i) ==
  /\ up.tasks[i].pc = "request"
  /\ up.tasks[i].answer = ""
  /\ up.tasks[i].ctl \notin up.aborted
  /\ \E answer \in {"2xx", "non2xx", "network"} :
       up' = [up EXCEPT !.tasks[i].answer = answer]
  /\ UNCHANGED clientFrame

\* handleFileUpload resumes with the outcome of the request: 'complete'
\* after a 2xx, the catch block and 'error' otherwise
ClientResumes(i) ==
  /\ up.tasks[i].pc = "request"
  /\ up.tasks[i].answer # ""
  /\ up.tasks[i].ctl \notin up.aborted
  /\ up' = IF up.tasks[i].answer = "2xx"
             THEN EndUpload(up, i, "complete", "complete")
             ELSE EndUpload(up, i, "error", "failed")
  /\ UNCHANGED clientFrame

\* the cleanup of the effect on [files]: abortControllerRef.current.abort()
EffectCleanup(u) ==
  IF u.form # "component" /\ u.controller # 0
    THEN [u EXCEPT !.aborted = @ \cup {u.controller}]
    ELSE u

\* React renders after setFiles: files is a new array, so the cleanup of
\* the effect on [files] runs
Render ==
  /\ up.mounted
  /\ up.dirty
  /\ up' = [EffectCleanup(up) EXCEPT !.dirty = FALSE]
  /\ UNCHANGED clientFrame

\* the fetch whose signal was aborted rejects (form_a): the catch block
\* marks the file 'error'
FetchAborted(i) ==
  /\ up.tasks[i].pc = "request"
  /\ up.tasks[i].ctl \in up.aborted
  /\ up' = EndUpload(up, i, "error", "aborted")
  /\ UNCHANGED clientFrame

\* the click on Retry of a file in status 'error': the component sets
\* 'uploading' itself, part_002 calls handleFileUpload at once
Retry(i) ==
  /\ up.mounted
  /\ up.retries < MaxRetries
  /\ up.files[i] = "error"
  /\ up.tasks[i].pc = "none"
  /\ LET clicked == [up EXCEPT !.retries = @ + 1] IN
     up' = IF up.form = "component"
             THEN StartUpload(setFiles(clicked, i, "uploading", "uploading"),
                              i, "retry", TRUE)
             ELSE StartUpload(clicked, i, "retry", FALSE)
  /\ UNCHANGED clientFrame

\* the component unmounts: the cleanup of the effect runs a last time
Unmount ==
  /\ up.mounted
  /\ up' = [EffectCleanup(up) EXCEPT !.mounted = FALSE, !.dirty = FALSE]
  /\ UNCHANGED clientFrame

NextClient ==
  \/ Drop
  \/ \E i \in DOMAIN up.tasks :
       \/ MetadataDone(i) \/ RequestSettles(i) \/ ClientResumes(i)
       \/ FetchAborted(i) \/ Retry(i)
  \/ Render
  \/ Unmount

SpecClient == InitClient /\ [][NextClient]_vars

\* the call of handleFileUpload for file i ends in this step
Ends(i) == up.tasks[i].pc # "none" /\ up'.tasks[i].pc = "none"

\* C26: in the form, an upload that fails (another status than 2xx, a network
\* error, an abort) sets the status of its file to 'error' and no step
\* changes the status of another file than the one it is about; a file in
\* status 'error' that is retried is set back to 'uploading' and then ends
\* in 'complete' or 'error'.
C26_FailureMarksOnlyThatFile ==
  /\ [][\A i \in DOMAIN up.files :
          /\ i \in DOMAIN up'.files
          /\ up'.files[i] # up.files[i] => up'.last.file = i
          /\ (Ends(i) /\ up.mounted /\ up'.last = [file |-> i, op |-> "failed"]) =>
               up'.files[i] = "error"
          /\ (Ends(i) /\ up.mounted /\ up'.last = [file |-> i, op |-> "aborted"]) =>
               up'.files[i] = "error"]_vars
  /\ [](up.phase = "on" =>
          \A i \in DOMAIN up.tasks :
            LET t == up.tasks[i] IN
            /\ (up.mounted /\ t.pc = "request") => up.files[i] = "uploading"
            /\ (t.origin = "retry" /\ t.pc = "none") =>
                 /\ t.shown
                 /\ up.mounted => up.files[i] \in {"complete", "error"})

\* C30: in form_a a request in flight is aborted only by the unmount of the
\* component, not by an update of the file list, and an upload that the
\* server answered with 2xx ends with its file in status 'complete'.
C30_AbortOnlyOnUnmount ==
  up.phase = "on" =>
    \A i \in DOMAIN up.tasks :
      LET t == up.tasks[i] IN
      /\ (t.pc = "request" /\ t.ctl \in up.aborted) => ~up.mounted
      /\ (up.mounted /\ t.pc = "none" /\ t.answer = "2xx") =>
           up.files[i] = "complete"

----------------------------------------------------------------------------
(* Properties of the upload route *)

\* the formats and what denotes each: MIME type, extensions, signature
Formats ==
  { [type |-> "image/jpeg", exts |-> {<<".","j","p","g">>, <<".","j","p","e","g">>},
     sig |-> SigJpeg],
    [type |-> "image/png", exts |-> {<<".","p","n","g">>}, sig |-> SigPng],
    [type |-> "image/webp", exts |-> {<<".","w","e","b","p">>}, sig |-> SigWebp] }

\* the bytes begin with the whole signature
StartsWith(bytes, sig) ==
  Len(bytes) >= Len(sig) /\ SubSeq(bytes, 1, Len(sig)) = sig

HasSignature(file) == \E f \in Formats : StartsWith(file.head, f.sig)

\* declared type, extension and signature denote one allowed format
SameFormat(file) ==
  \E f \in Formats : /\ file.type = f.type
                     /\ toLowerCase(extname(file.name)) \in f.exts
                     /\ StartsWith(file.head, f.sig)

\* the request got past validation: its file is being, or has been, stored
Accepted(q) ==
  \/ q.pc \in {"write", "stat", "readdir", "sweep"}
  \/ q.pc = "done" /\ q.resp.status = 200

RespCode(resp) == IF "code" \in DOMAIN resp.body THEN resp.body.code ELSE ""

\* the request was answered by the validator (400) or by success (200), not
\* by the rate limiter or by a failed system call
Decided(q) == q.pc = "done" /\ q.resp.status \in {200, 400}

RespFilename(resp) ==
  IF "data" \in DOMAIN resp.body THEN resp.body.data.filename
                                 ELSE resp.body.filename
RespUrl(resp) ==
  IF "data" \in DOMAIN resp.body THEN resp.body.data.url ELSE resp.body.url

\* C2: a file of at most 10 MiB whose leading bytes match none of the three
\* signatures (files shorter than a signature included) is never accepted and
\* is answered INVALID_FILE_TYPE, whatever its declared type and extension.
C2_NoSignatureRejected ==
  \A r \in Reqs :
    LET q == reqs[r] IN
    (q.file.kind = "file" /\ q.file.size <= MAX_FILE_SIZE /\ ~HasSignature(q.file)) =>
      /\ ~Accepted(q)
      /\ Decided(q) => RespCode(q.resp) = "INVALID_FILE_TYPE"

\* C3: the validator accepts a file only when declared MIME type, extension
\* and detected signature denote the same allowed format; a file carrying
\* the signature of one format and declared as another is refused.
C3_AcceptedOnlyIfSameFormat ==
  (vf.phase = "validated" /\ HasSignature(vf.file) /\ vf.result) =>
    SameFormat(vf.file)

\* C4: a file larger than 10 MiB is answered 400 FILE_TOO_LARGE whether or
\* not its type is valid, the type check is never reached for it, and a file
\* of at most 10 MiB (so one of exactly 10 MiB) is never answered
\* FILE_TOO_LARGE.  The only other answers are those given before the file
\* is read: 429, or 500 for a failed mkdir or formData.
C4_TooLargeRejected ==
  \A r \in Reqs :
    LET q == reqs[r] IN
    (variant \in FullVariants /\ q.file.kind = "file") =>
      /\ q.file.size > MAX_FILE_SIZE =>
           /\ q.pc \notin {"validate", "write", "stat", "readdir", "sweep"}
           /\ q.pc = "done" =>
                \/ q.resp.status = 400 /\ RespCode(q.resp) = "FILE_TOO_LARGE"
                \/ q.resp.status = 429
                \/ q.resp.status = 500 /\ RespCode(q.resp) = "UNKNOWN_ERROR"
      /\ q.file.size <= MAX_FILE_SIZE =>
           RespCode(q.resp) # "FILE_TOO_LARGE"

C4_Witness ==
  \E r \in Reqs :
    /\ variant \in FullVariants
    /\ reqs[r].pc = "done"
    /\ reqs[r].file = FileOf(NamePng, "image/png", PngHead, MAX_FILE_SIZE + 1)
    /\ reqs[r].resp.status = 400
    /\ RespCode(reqs[r].resp) = "FILE_TOO_LARGE"

\* C5: an empty file with an allowed MIME type and extension is answered
\* INVALID_FILE and is not written.
C5_EmptyFileRejected ==
  \A r \in Reqs :
    LET q == reqs[r] IN
    (q.file.kind = "file" /\ q.file.size = 0 /\ TypeAndExtensionAllowed(q.file)) =>
      /\ q.pc \notin {"write", "stat", "readdir", "sweep"}
      /\ Decided(q) => q.resp.status = 400 /\ RespCode(q.resp) = "INVALID_FILE"

\* C6: a file of at most 10 MiB whose declared type, extension and leading
\* bytes denote the same format is never refused by the validator; once
\* written it is an entry of the upload directory with its size, and the
\* success response carries url = '/uploads/' + the stored filename.
C6_ValidFileStored ==
  \A r \in Reqs :
    LET q == reqs[r] IN
    (q.file.kind = "file" /\ q.file.size <= MAX_FILE_SIZE /\ SameFormat(q.file)) =>
      /\ q.pc = "done" => q.resp.status \in {200, 429, 500}
      /\ q.pc \in {"stat", "readdir"} =>
           /\ q.filename \in DOMAIN uploads
           /\ uploads[q.filename].size = q.file.size
      /\ (q.pc = "done" /\ q.resp.status = 200) =>
           /\ q.resp.body.success
           /\ RespFilename(q.resp) = q.filename
           /\ RespUrl(q.resp) = UploadsPrefix \o q.filename

C6_Witness ==
  \E r \in Reqs :
    /\ reqs[r].pc = "done"
    /\ reqs[r].file = FileOf(NamePng, "image/png", PngHead, 2048)
    /\ reqs[r].resp.status = 200
    /\ reqs[r].filename \in DOMAIN uploads

\* C10: every failure response has the body {success:false, error, code}
\* with a code of the taxonomy, and status 400 for a validation failure, 429
\* for the rate limit, 500 otherwise.
Taxonomy == {"INVALID_FILE", "FILE_TOO_LARGE", "INVALID_FILE_TYPE",
             "RATE_LIMIT_EXCEEDED", "WRITE_ERROR", "VALIDATION_FAILED",
             "UNKNOWN_ERROR"}
StatusOfCode(code) ==
  IF code \in {"INVALID_FILE", "FILE_TOO_LARGE", "INVALID_FILE_TYPE"} THEN 400
  ELSE IF code = "RATE_LIMIT_EXCEEDED" THEN 429
  ELSE 500

C10_StructuredFailures ==
  \A r \in Reqs :
    LET q == reqs[r] IN
    (q.pc = "done" /\ q.resp.status # 200) =>
      /\ DOMAIN q.resp.body = {"success", "error", "code"}
      /\ q.resp.body.success = FALSE
      /\ q.resp.body.code \in Taxonomy
      /\ q.resp.status = StatusOfCode(q.resp.body.code)

\* the order of the steps of POST: each step is followed by the next one or,
\* when it rejects or throws, by the response
StepOrder ==
  {<<"idle", "ensureDir">>, <<"ensureDir", "formData">>, <<"formData", "validate">>,
   <<"validate", "write">>, <<"write", "stat">>, <<"stat", "readdir">>,
   <<"readdir", "sweep">>, <<"sweep", "done">>}
  \cup {<<pc, "done">> : pc \in {"idle", "ensureDir", "formData", "validate",
                                  "write", "stat", "readdir"}}

\* C22: in part_000 and part_001 the steps of a request occur in the order
\* rate limit, directory, presence and size, type and filename, write, stat,
\* sweep, response; the sweep starts only after the file was written and
\* confirmed, and the success response is produced only after the sweep has
\* finished: no stat or unlink of the sweep is still to come.
C22_StepOrder ==
  /\ [][\A r \in DOMAIN reqs :
          (r \in DOMAIN reqs' /\ reqs'[r].pc # reqs[r].pc) =>
            /\ <<reqs[r].pc, reqs'[r].pc>> \in StepOrder
            /\ (reqs[r].pc \in {"readdir", "sweep"} /\ reqs'[r].pc = "done") =>
                 reqs'[r].resp.status = 200]_vars
  /\ [](\A r \in DOMAIN reqs :
          LET q == reqs[r] IN
          /\ (variant \in FullVariants /\ q.pc \in {"readdir", "sweep"}) =>
               q.mtime # 0 /\ q.filename \in DOMAIN uploads
          /\ (variant \in FullVariants /\ q.pc = "done" /\ q.resp.status = 200) =>
               q.mtime # 0 /\ q.listed = {} /\ bg = {})

\* C23: a request rejected by the rate limit (429) or by the validation
\* (400: no file, too large, wrong type) has written no file and started no
\* sweep: the upload directory is as the request found it.
C23_RejectionTouchesNothing ==
  \A r \in DOMAIN reqs :
    LET q == reqs[r] IN
    (q.pc = "done" /\ q.resp.status \in {400, 429}) =>
      /\ uploads = q.before
      /\ q.filename = <<>>
      /\ q.sweepNow = 0 /\ q.listed = {} /\ bg = {}

\* a file of the wrong type was rejected while the directory held entries, one
\* of them older than MAX_AGE
C23_Witness ==
  \E r \in DOMAIN reqs :
    /\ reqs[r].pc = "done"
    /\ reqs[r].resp.status = 400
    /\ RespCode(reqs[r].resp) = "INVALID_FILE_TYPE" \/ variant \notin FullVariants
    /\ reqs[r].file.kind = "file" /\ ~ExceedsMaxSize(reqs[r].file)
    /\ uploads = Merge(OldEntries, EdgeEntries)

\* C11: when the stats of the file cannot be obtained after the bytes were
\* written, the upload handler answers 500 with code WRITE_ERROR and does
\* not report success.
C11_StatFailureIsWriteError ==
  \A r \in Reqs :
    LET q == reqs[r] IN
    (q.pc = "done" /\ q.threw = "stat") =>
      /\ q.resp.status = 500
      /\ RespCode(q.resp) = "WRITE_ERROR"
      /\ q.resp.body.success = FALSE

\* the headers middleware sets on every response of /api/:path*
middlewareHeaders ==
  {"X-Content-Type-Options: nosniff", "X-Frame-Options: DENY",
   "X-XSS-Protection: 1; mode=block",
   "Content-Security-Policy: default-src 'self'; img-src 'self' data: blob: https:; script-src 'self' 'unsafe-eval' 'unsafe-inline';"}

\* the headers the client receives: those of the handler's response and
\* those middleware adds to it
middleware(resp) == [resp EXCEPT !.headers = @ \cup middlewareHeaders]

HasContentSecurityPolicy(headers) ==
  \/ "Content-Security-Policy: default-src 'self'" \in headers
  \/ \E h \in middlewareHeaders \cap headers :
       h \notin {"X-Content-Type-Options: nosniff", "X-Frame-Options: DENY",
                 "X-XSS-Protection: 1; mode=block"}

\* the four headers the interface promises on upload and process responses
HasPromisedHeaders(headers) ==
  /\ "X-Content-Type-Options: nosniff" \in headers
  /\ "X-Frame-Options: DENY" \in headers
  /\ HasContentSecurityPolicy(headers)
  /\ "Access-Control-Allow-Origin: *" \in headers

\* C12: every response of the upload handler, on success and on every
\* failure path (the 429 of the rate limiter included), carries
\* X-Content-Type-Options: nosniff, X-Frame-Options: DENY, a
\* Content-Security-Policy header and Access-Control-Allow-Origin: *, the
\* headers of middleware counted in.
C12_PromisedHeaders ==
  \A r \in Reqs :
    reqs[r].pc = "done" => HasPromisedHeaders(middleware(reqs[r].resp).headers)

----------------------------------------------------------------------------
(* Properties of generateSafeFilename *)

\* the characters of [a-zA-Z0-9.-_] read as a list: letters, digits, '.',
\* '-' and '_'
SafeChars == Range(Lowers) \cup Range(Uppers) \cup Range(Digits) \cup {".", "-", "_"}

\* C7: for every original filename the returned name consists of characters
\* of [a-zA-Z0-9.-_] only.
C7_OnlySafeChars ==
  fn.phase \in {"once", "twice"} => \A i \in DOMAIN fn.out1 : fn.out1[i] \in SafeChars

HasDotDot(s) == \E i \in 1..(Len(s) - 1) : s[i] = "." /\ s[i + 1] = "."

\* C8: for every original filename the returned name contains no '/', no
\* '\' and no '..'.
C8_NoTraversal ==
  fn.phase \in {"once", "twice"} =>
    /\ "/" \notin Range(fn.out1)
    /\ "\\" \notin Range(fn.out1)
    /\ ~HasDotDot(fn.out1)

\* C9: applied to its own output, generateSafeFilename keeps the sanitized
\* base name and the extension as they are and only adds a new uniqueness
\* token.
C9_IdempotentOnClass ==
  fn.phase = "twice" =>
    LET ext == extname(fn.name)
        stem == SubSeq(fn.out1, 1, Len(fn.out1) - Len(ext))
    IN /\ SubSeq(fn.out1, Len(stem) + 1, Len(fn.out1)) = ext
       /\ fn.out2 = IF variant \in FullVariants
                      THEN stem \o <<"-">> \o fn.id2 \o ext
                      ELSE fn.id2 \o <<"-">> \o stem \o ext

C9_Witness ==
  /\ fn.phase = "twice"
  /\ fn.name = NameUpper
  /\ fn.id2 # fn.id1

====
